---- MODULE Spec2Model ----
(***************************************************************************)
(* Model of the sikai-skills scripts: the queue store (queue_io.py), the   *)
(* knowledge-base append (learn_from_capture.py), the note chunker and the *)
(* batch loop (batch_x_learning.py), the capture retry, the page scan and  *)
(* the thread of a capture (read_x_post.py), the publisher                 *)
(* (drafts_to_x.py) and the single-link pipeline with its headless/headed  *)
(* fallback (run_x_capture_analyze.py).                                    *)
(*                                                                         *)
(* Text is modelled as it is processed: a Python str is a sequence of      *)
(* one-character strings, so splitlines, split, strip, startswith, index   *)
(* and int are computed character by character.  The only line break of    *)
(* the alphabet used here is "\n".                                         *)
(***************************************************************************)
EXTENDS Integers, Sequences, FiniteSets, TLC

VARIABLES
    \* queue store (queue_io.py and its callers)
    qfile,          \* content of the queue file
    header_lines,   \* the caller's header_lines
    items,          \* the caller's items (list of QueueItem)
    qpc,            \* "unloaded" | "loaded" | "written" | "raised" | "off"
    rendered,       \* arguments of the last write_queue_md
    first,          \* result of the first parse_queue_md that returned
    runs,           \* number of write_queue_md calls so far
    \* knowledge base (learn_from_capture.py, _append_kb)
    kb_exists,      \* kb_path.exists()
    kb,             \* content of the knowledge-base file
    kb_calls,       \* number of _append_kb calls so far
    kb_last,        \* the last call: its status id, the file before it, its result
    kb_appended,    \* per status id, the number of calls that returned True
    \* chunk_text (batch_x_learning.py)
    ch_text,        \* argument text
    ch_max,         \* argument max_chars
    ch_chunks,      \* returned list
    ch_pc,          \* "call" | "returned" | "off"
    \* _find_target_article_with_retries (read_x_post.py)
    rt_sid,         \* status_id looked for
    rt_appear,      \* the feed shows rt_hit from this find attempt on (0-based)
    rt_decoy,       \* page rendered before that
    rt_hit,         \* page rendered from then on
    rt_i,           \* loop variable i
    rt_finds,       \* calls of _find_target_article so far
    rt_scrolls,     \* page.mouse.wheel calls so far
    rt_scroll_errs, \* how many of them (or of the waits after them) raised
    rt_last_err,    \* last_err ("" for None)
    rt_result,      \* index of the returned article in the page (0: none)
    rt_pc,          \* "home" | "find" | "scroll" | "returned" | "raised" | "off"
    \* _capture_single (run_x_capture_analyze.py)
    cp_url, cp_headless, cp_proxy, cp_cookie,   \* arguments
    cp_cmd,         \* the command list built
    cp_runs,        \* the commands handed to _run, in order
    cp_outcomes,    \* what each of them did: "ok" | "fail" | "crash"
    cp_mode,        \* capture_mode of the returned dict ("" before)
    cp_pc,          \* "start" | "run" | "fallback" | "returned" | "learned" |
                    \* "analysed" | "printed" | "raised" | "off"
    cp_purpose,     \* the normalized --purpose of a single-link run
    cp_steps,       \* the steps main started, in order, with what each did
    \* batch loop (batch_x_learning.py, main)
    b_file,         \* lines of the links file
    b_fetch,        \* --fetch
    b_caps,         \* capture files: status id -> "none" | "good" | "bad"
    b_links,        \* load_links(links_file)
    b_i,            \* number of links the loop has handled
    b_items,        \* items
    b_errors,       \* errors
    b_notion,       \* --notion
    b_out,          \* the local note out_md: <<>> while absent, else <<content>>
    b_snap,         \* items, errors and out_md as they were when the Notion step began
    b_page_id,      \* notion_page_id
    b_report,       \* the JSON result printed: <<>> before, else <<result>>
    b_pc,           \* "load" | "loop" | "written" | "synced" | "done" | "aborted" | "off"
    \* drafts_to_x.py, main (works on qfile, header_lines, items)
    d_limit,        \* --limit
    d_mark,         \* --mark
    d_debug,        \* --debug
    d_before,       \* items as parse_queue_md returned them
    d_todo,         \* to_process, as positions in items
    d_k,            \* number of to_process entries the loop has handled
    d_log,          \* what happened to each of them
    d_pc,           \* "start" | "loop" | "done" | "aborted" | "raised" | "off"
    \* read_x_post.py, main: media download
    m_all,          \* all_media
    m_unique,       \* unique_media
    m_idx,          \* number of unique_media entries the loop has handled
    m_downloaded,   \* downloaded
    m_caught,       \* the urls whose download failure the except clause caught
    m_result,       \* the result printed: <<>> before, else <<result>>
    m_pc,           \* "start" | "loop" | "printed" | "off"
    \* batch_x_learning.py, main: categorize and summarize of one capture
    n_text,         \* main.text of the capture
    n_cat,          \* cat
    n_summary,      \* the item's summary
    n_pc,           \* "start" | "categorized" | "done" | "off"
    \* read_x_post.py, main: one capture of a page
    rd_sid,         \* target_status_id
    rd_page,        \* the article nodes of the page, in page order
    rd_max_articles, \* --max-articles
    rd_max_thread,  \* --max-thread
    rd_include_others, \* --include-others
    rd_target,      \* index of target_article on the page (0: none)
    rd_main,        \* main_post (empty until extracted)
    rd_all,         \* all_articles
    rd_thread,      \* thread
    rd_err,         \* message of the exception that ended the capture
    rd_pc           \* "start" | "found" | "checked" | "collected" | "done" | "failed" | "off"

qvars == <<qfile, header_lines, items, qpc, rendered, first, runs>>
kbvars == <<kb_exists, kb, kb_calls, kb_last, kb_appended>>
chvars == <<ch_text, ch_max, ch_chunks, ch_pc>>
rtvars == <<rt_sid, rt_appear, rt_decoy, rt_hit, rt_i, rt_finds, rt_scrolls,
            rt_scroll_errs, rt_last_err, rt_result, rt_pc>>
cpvars == <<cp_url, cp_headless, cp_proxy, cp_cookie, cp_cmd, cp_runs, cp_outcomes,
            cp_mode, cp_pc, cp_purpose, cp_steps>>
bvars == <<b_file, b_fetch, b_caps, b_links, b_i, b_items, b_errors, b_notion,
           b_out, b_snap, b_page_id, b_report, b_pc>>
dvars == <<d_limit, d_mark, d_debug, d_before, d_todo, d_k, d_log, d_pc>>
mvars == <<m_all, m_unique, m_idx, m_downloaded, m_caught, m_result, m_pc>>
nvars == <<n_text, n_cat, n_summary, n_pc>>
rdvars == <<rd_sid, rd_page, rd_max_articles, rd_max_thread, rd_include_others,
            rd_target, rd_main, rd_all, rd_thread, rd_err, rd_pc>>
vars == <<qvars, kbvars, chvars, rtvars, cpvars, bvars, dvars, mvars, nvars, rdvars>>

------------------------------------------------------------------------------
(* Bounds of the model *)

MaxItems == 2       \* items in a generated queue
MaxLines == 2       \* free lines appended to a file prefix
MaxRuns == 2        \* write_queue_md calls in one behaviour
MaxCalls == 3       \* _append_kb calls in one behaviour
MaxTextLen == 5     \* characters of a text handed to chunk_text
MaxCap == 3         \* largest max_chars handed to chunk_text
MaxAbsent == 9      \* largest number of find attempts the target stays absent
MaxLinks == 3       \* lines of a links file
MaxDraftItems == 3  \* items of a queue file handed to drafts_to_x
MaxLimit == 2       \* largest --limit
MaxMedia == 3       \* media urls of a capture
MaxPieces == 3      \* pieces a capture text is made of
MaxArticles == 3    \* article nodes of a page
MaxThread == 2      \* largest --max-thread

------------------------------------------------------------------------------
(* Python str primitives over sequences of characters *)

Whitespace == {" ", "\t", "\n"}
Digits == {"0", "1", "2", "3", "4", "5", "6", "7", "8", "9"}

\* s.startswith(p)
StartsWith(s, p) == Len(s) >= Len(p) /\ SubSeq(s, 1, Len(p)) = p

\* 1-based s.index(c), 0 when c does not occur
IndexOf(s, c) ==
    IF \E i \in 1..Len(s) : s[i] = c
    THEN CHOOSE i \in 1..Len(s) : s[i] = c /\ \A j \in 1..(i - 1) : s[j] # c
    ELSE 0

\* c in s
Contains(s, c) == \E i \in 1..Len(s) : s[i] = c

\* s.strip()
Strip(s) ==
    LET keep == {i \in 1..Len(s) : s[i] \notin Whitespace}
    IN IF keep = {} THEN <<>>
       ELSE LET lo == CHOOSE i \in keep : \A j \in keep : i <= j
                hi == CHOOSE i \in keep : \A j \in keep : i >= j
            IN SubSeq(s, lo, hi)

\* s.split(): the maximal runs of non-whitespace characters
RECURSIVE Split(_)
Split(s) ==
    IF s = <<>> THEN <<>>
    ELSE IF s[1] \in Whitespace THEN Split(Tail(s))
    ELSE LET stops == {i \in 1..Len(s) : s[i] \in Whitespace}
             stop == IF stops = {} THEN Len(s) + 1
                     ELSE CHOOSE i \in stops : \A j \in stops : i <= j
         IN <<SubSeq(s, 1, stop - 1)>> \o Split(SubSeq(s, stop, Len(s)))

\* s.splitlines()
RECURSIVE SplitLines(_)
SplitLines(s) ==
    IF s = <<>> THEN <<>>
    ELSE LET i == IndexOf(s, "\n")
         IN IF i = 0 THEN <<s>>
            ELSE <<SubSeq(s, 1, i - 1)>> \o SplitLines(SubSeq(s, i + 1, Len(s)))

\* "\n".join(lines)
RECURSIVE JoinLines(_)
JoinLines(lines) ==
    IF lines = <<>> THEN <<>>
    ELSE IF Len(lines) = 1 THEN lines[1]
    ELSE lines[1] \o <<"\n">> \o JoinLines(Tail(lines))

DigitVal(c) ==
    CASE c = "0" -> 0 [] c = "1" -> 1 [] c = "2" -> 2 [] c = "3" -> 3
      [] c = "4" -> 4 [] c = "5" -> 5 [] c = "6" -> 6 [] c = "7" -> 7
      [] c = "8" -> 8 [] c = "9" -> 9

DigitChar(d) == <<"0", "1", "2", "3", "4", "5", "6", "7", "8", "9">>[d + 1]

\* whether int(tok) returns: an optional sign and one or more digits
IsIntLiteral(tok) ==
    LET body == IF tok # <<>> /\ tok[1] \in {"+", "-"} THEN Tail(tok) ELSE tok
    IN /\ body # <<>>
       /\ \A i \in 1..Len(body) :
            \/ body[i] \in Digits
            \/ /\ body[i] = "_"      \* a single underscore between two digits
               /\ 1 < i /\ i < Len(body)
               /\ body[i - 1] \in Digits /\ body[i + 1] \in Digits

RECURSIVE DigitsValue(_)
DigitsValue(ds) ==
    IF ds = <<>> THEN 0
    ELSE IF ds[Len(ds)] = "_" THEN DigitsValue(SubSeq(ds, 1, Len(ds) - 1))
    ELSE 10 * DigitsValue(SubSeq(ds, 1, Len(ds) - 1)) + DigitVal(ds[Len(ds)])

\* int(tok) for a token IsIntLiteral accepts
IntOf(tok) ==
    IF tok[1] = "-" THEN 0 - DigitsValue(Tail(tok))
    ELSE IF tok[1] = "+" THEN DigitsValue(Tail(tok))
    ELSE DigitsValue(tok)

RECURSIVE NatDigits(_)
NatDigits(n) ==
    IF n < 10 THEN <<DigitChar(n)>>
    ELSE NatDigits(n \div 10) \o <<DigitChar(n % 10)>>

RECURSIVE ZeroPad(_, _)
ZeroPad(ds, width) == IF Len(ds) >= width THEN ds ELSE ZeroPad(<<"0">> \o ds, width)

\* f"{n:03d}": zero padded to three characters, the sign included
Format03d(n) ==
    IF n < 0 THEN <<"-">> \o ZeroPad(NatDigits(0 - n), 2)
    ELSE ZeroPad(NatDigits(n), 3)

------------------------------------------------------------------------------
(* queue_io.py *)

MarkerPrefix == <<"#", "#", " ", "I", "t", "e", "m", " ">>
TextPrefix == <<"t", "e", "x", "t", ":">>
HEADER_PREFIX == <<"#", " ", "X", " ", "Q", "u", "e", "u", "e">>
Pending == <<"p", "e", "n", "d", "i", "n", "g">>
Drafted == <<"d", "r", "a", "f", "t", "e", "d">>
KeyType == <<"t", "y", "p", "e">>
KeyLang == <<"l", "a", "n", "g">>
KeySource == <<"s", "o", "u", "r", "c", "e">>
KeyNote == <<"n", "o", "t", "e">>

QueueItem(id, st, ty, la, so, no, tx) ==
    [item_id |-> id, status |-> st, type |-> ty, lang |-> la,
     source |-> so, note |-> no, text |-> tx]

\* the locals of parse_queue_md before its loop; current is <<>> for None
ParseStart ==
    [header_lines |-> <<>>, items |-> <<>>, current |-> <<>>,
     in_text |-> FALSE, raised |-> FALSE]

\* a marker branch that recovers from a malformed marker by skipping the line
ParseMarkerSkipsMalformed(st, line) ==
    LET parts == Split(line)
        i == IndexOf(line, "[")
        j == IndexOf(line, "]")
        status == IF i > 0 /\ j > 0 THEN Strip(SubSeq(line, i + 1, j - 1))
                  ELSE Pending
    IN IF Len(parts) < 3 \/ ~IsIntLiteral(parts[3])
       THEN st
       ELSE [st EXCEPT
               !.items = st.items \o st.current,
               !.in_text = FALSE,
               !.current = <<QueueItem(IntOf(parts[3]), status,
                                       <<>>, <<>>, <<>>, <<>>, <<>>)>>]

\* a marker branch that numbers the items by their position in the file
ParseMarkerByPosition(st, line) ==
    LET parts == Split(line)
        i == IndexOf(line, "[")
        j == IndexOf(line, "]")
        status == IF i > 0 /\ j > 0 THEN Strip(SubSeq(line, i + 1, j - 1))
                  ELSE Pending
    IN IF Len(parts) < 3 \/ ~IsIntLiteral(parts[3])
       THEN [st EXCEPT !.raised = TRUE]
       ELSE [st EXCEPT
               !.items = st.items \o st.current,
               !.in_text = FALSE,
               !.current = <<QueueItem(Len(st.items) + Len(st.current) + 1, status,
                                       <<>>, <<>>, <<>>, <<>>, <<>>)>>]

\* the marker branch of the loop body: flush, then open a new item
ParseMarker(st, line) ==
    LET parts == Split(line)
        i == IndexOf(line, "[")
        j == IndexOf(line, "]")
        status == IF i > 0 /\ j > 0 THEN Strip(SubSeq(line, i + 1, j - 1))
                  ELSE Pending
    IN IF Len(parts) < 3 \/ ~IsIntLiteral(parts[3])
       THEN [st EXCEPT !.raised = TRUE]
       ELSE [st EXCEPT
               !.items = st.items \o st.current,
               !.in_text = FALSE,
               !.current = <<QueueItem(IntOf(parts[3]), status,
                                       <<>>, <<>>, <<>>, <<>>, <<>>)>>]

\* a "key: value" branch that resets the fields it does not set
ParseFieldClearsOthers(st, line) ==
    LET c == IndexOf(line, ":")
        key == Strip(SubSeq(line, 1, c - 1))
        value == Strip(SubSeq(line, c + 1, Len(line)))
        blank == [st EXCEPT !.current[1].type = <<>>, !.current[1].lang = <<>>,
                            !.current[1].source = <<>>, !.current[1].note = <<>>]
    IN IF c = 0 THEN st
       ELSE IF key = KeyType THEN [blank EXCEPT !.current[1].type = value]
       ELSE IF key = KeyLang THEN [blank EXCEPT !.current[1].lang = value]
       ELSE IF key = KeySource THEN [blank EXCEPT !.current[1].source = value]
       ELSE IF key = KeyNote THEN [blank EXCEPT !.current[1].note = value]
       ELSE st

\* a "key: value" branch that files a line with an unknown key under note
ParseFieldKeepsUnknown(st, line) ==
    LET c == IndexOf(line, ":")
        key == Strip(SubSeq(line, 1, c - 1))
        value == Strip(SubSeq(line, c + 1, Len(line)))
    IN IF c = 0 THEN st
       ELSE IF key = KeyType THEN [st EXCEPT !.current[1].type = value]
       ELSE IF key = KeyLang THEN [st EXCEPT !.current[1].lang = value]
       ELSE IF key = KeySource THEN [st EXCEPT !.current[1].source = value]
       ELSE IF key = KeyNote THEN [st EXCEPT !.current[1].note = value]
       ELSE [st EXCEPT !.current[1].note = line]

\* the "key: value" branch of the loop body
ParseField(st, line) ==
    LET c == IndexOf(line, ":")
        key == Strip(SubSeq(line, 1, c - 1))
        value == Strip(SubSeq(line, c + 1, Len(line)))
    IN IF c = 0 THEN st
       ELSE IF key = KeyType THEN [st EXCEPT !.current[1].type = value]
       ELSE IF key = KeyLang THEN [st EXCEPT !.current[1].lang = value]
       ELSE IF key = KeySource THEN [st EXCEPT !.current[1].source = value]
       ELSE IF key = KeyNote THEN [st EXCEPT !.current[1].note = value]
       ELSE st

\* one iteration of "for line in lines"
ParseStep(st, line) ==
    IF st.raised THEN st
    ELSE IF StartsWith(line, MarkerPrefix) THEN ParseMarker(st, line)
    ELSE IF st.current = <<>>
         THEN [st EXCEPT !.header_lines = Append(st.header_lines, line)]
    ELSE IF StartsWith(line, TextPrefix)
         THEN [st EXCEPT !.in_text = TRUE, !.current[1].text = <<>>]
    ELSE IF st.in_text
         THEN IF st.current[1].text # <<>>
              THEN [st EXCEPT !.current[1].text = @ \o <<"\n">> \o line]
              ELSE [st EXCEPT !.current[1].text = line]
    ELSE ParseField(st, line)

RECURSIVE ParseLoop(_, _)
ParseLoop(st, lines) ==
    IF lines = <<>> THEN st ELSE ParseLoop(ParseStep(st, Head(lines)), Tail(lines))

\* a parse that returns without the final flush_current()
parse_queue_md_without_final_flush(content) ==
    LET st == ParseLoop(ParseStart, SplitLines(content))
    IN IF st.raised THEN [raised |-> TRUE]
       ELSE [raised |-> FALSE, header_lines |-> st.header_lines,
             items |-> st.items]

\* parse_queue_md on a file of this content: the returned pair, or raised
parse_queue_md(content) ==
    LET st == ParseLoop(ParseStart, SplitLines(content))
    IN IF st.raised THEN [raised |-> TRUE]
       ELSE [raised |-> FALSE, header_lines |-> st.header_lines,
             items |-> st.items \o st.current]

\* an item block without the blank separator line
RenderItemNoSeparator(item) ==
    << MarkerPrefix \o Format03d(item.item_id) \o <<" ", "[">> \o item.status \o <<"]">>,
       KeyType \o <<":", " ">> \o item.type,
       KeyLang \o <<":", " ">> \o item.lang,
       KeySource \o <<":", " ">> \o item.source,
       KeyNote \o <<":", " ">> \o item.note,
       TextPrefix >>
    \o (IF item.text # <<>> THEN SplitLines(item.text) ELSE <<>>)

\* the lines one item contributes to the output
RenderItem(item) ==
    << <<>>,
       MarkerPrefix \o Format03d(item.item_id) \o <<" ", "[">> \o item.status \o <<"]">>,
       KeyType \o <<":", " ">> \o item.type,
       KeyLang \o <<":", " ">> \o item.lang,
       KeySource \o <<":", " ">> \o item.source,
       KeyNote \o <<":", " ">> \o item.note,
       TextPrefix >>
    \o (IF item.text # <<>> THEN SplitLines(item.text) ELSE <<>>)

RECURSIVE RenderItems(_)
RenderItems(its) ==
    IF its = <<>> THEN <<>> ELSE RenderItem(Head(its)) \o RenderItems(Tail(its))

render_queue_md(hl, its) ==
    JoinLines((IF hl # <<>> THEN hl ELSE <<HEADER_PREFIX>>)
              \o RenderItems(its) \o << <<>> >>)

------------------------------------------------------------------------------
(* Inputs of the queue store *)

LineA == <<"a">>
TzLine == <<"t", "z", ":", " ", "U">>

\* bodies a generated item can carry (render_with_llm / fallback_text)
TextPool == { <<>>, LineA, <<"a", "\n", "b">>, <<"a", "\n", "\n", "b">> }
NotePool == { <<>>, <<"n">> }

\* header_lines queue_generate passes to write_queue_md (never empty)
HeaderPool == { <<HEADER_PREFIX>>, <<HEADER_PREFIX, TzLine>> }

\* build_items: item_id is the position, status is pending
GeneratedItems(n) ==
    { its \in [1..n -> [item_id : 1..n, status : {Pending}, type : {<<"t">>},
                        lang : {<<"z", "h">>}, source : {<<"s">>},
                        note : NotePool, text : TextPool]] :
        \A i \in 1..n : its[i].item_id = i }

\* lines of a queue file somebody wrote or edited
LinePool ==
    { MarkerPrefix \o <<"0", "0", "7", " ", "[">> \o Drafted \o <<"]">>,
      MarkerPrefix \o <<"1", "2">>,
      MarkerPrefix \o <<"x">>,
      TextPrefix,
      TextPrefix \o <<" ", "b">>,
      LineA,
      <<>>,
      KeyNote \o <<":", " ", "n">>,
      KeyType \o <<":", "t", " ">>,
      <<"k", ":", " ", "v">> }

FilePrefixes ==
    { <<>>,
      <<HEADER_PREFIX>>,
      <<MarkerPrefix \o <<"0", "0", "1", " ", "[">> \o Pending \o <<"]">>, TextPrefix>>,
      <<MarkerPrefix \o <<"0", "0", "1", " ", "[">> \o Pending \o <<"]">>,
        KeyType \o <<":", "t", " ">>, TextPrefix, KeyNote \o <<":", " ", "n">> >>,
      <<HEADER_PREFIX, <<>>, MarkerPrefix \o <<"3", " ", "[", " ", "x", " ", "]">> >> }

RECURSIVE LineSeqs(_)
LineSeqs(n) ==
    IF n = 0 THEN { <<>> }
    ELSE LET shorter == LineSeqs(n - 1)
         IN shorter \cup { Append(ls, l) : ls \in {s \in shorter : Len(s) = n - 1},
                                           l \in LinePool }

\* a file ends each line with "\n"
FileOf(lines) == IF lines = <<>> THEN <<>> ELSE JoinLines(lines) \o <<"\n">>

InitialFiles == { FileOf(p \o ls) : p \in FilePrefixes, ls \in LineSeqs(MaxLines) }

NoMem == <<>>

------------------------------------------------------------------------------
(* A specification runs one component; the variables of the others rest *)

QOff ==
    /\ qfile = <<>> /\ header_lines = <<>> /\ items = <<>> /\ qpc = "off"
    /\ rendered = <<>> /\ first = <<>> /\ runs = 0

KbOff ==
    /\ kb_exists = FALSE /\ kb = <<>> /\ kb_calls = 0 /\ kb_last = <<>>
    /\ kb_appended = <<>>

ChOff == ch_text = <<>> /\ ch_max = 0 /\ ch_chunks = <<>> /\ ch_pc = "off"

RtOff ==
    /\ rt_sid = <<>> /\ rt_appear = 0 /\ rt_decoy = <<>> /\ rt_hit = <<>>
    /\ rt_i = 0 /\ rt_finds = 0 /\ rt_scrolls = 0 /\ rt_scroll_errs = 0
    /\ rt_last_err = "" /\ rt_result = 0 /\ rt_pc = "off"

CpOff ==
    /\ cp_url = <<>> /\ cp_headless = FALSE /\ cp_proxy = <<>> /\ cp_cookie = "none"
    /\ cp_cmd = <<>> /\ cp_runs = <<>> /\ cp_outcomes = <<>> /\ cp_mode = ""
    /\ cp_pc = "off" /\ cp_purpose = "" /\ cp_steps = <<>>

BOff ==
    /\ b_file = <<>> /\ b_fetch = FALSE /\ b_caps = <<>> /\ b_links = <<>>
    /\ b_i = 0 /\ b_items = <<>> /\ b_errors = <<>> /\ b_notion = FALSE
    /\ b_out = <<>> /\ b_snap = <<>> /\ b_page_id = "" /\ b_report = <<>>
    /\ b_pc = "off"

DOff ==
    /\ d_limit = 0 /\ d_mark = FALSE /\ d_debug = FALSE /\ d_before = <<>>
    /\ d_todo = <<>> /\ d_k = 0 /\ d_log = <<>> /\ d_pc = "off"

MOff ==
    /\ m_all = <<>> /\ m_unique = <<>> /\ m_idx = 0 /\ m_downloaded = <<>>
    /\ m_caught = <<>> /\ m_result = <<>> /\ m_pc = "off"

NOff == n_text = <<>> /\ n_cat = "" /\ n_summary = <<>> /\ n_pc = "off"

RdOff ==
    /\ rd_sid = "" /\ rd_page = <<>> /\ rd_max_articles = 0 /\ rd_max_thread = 0
    /\ rd_include_others = FALSE /\ rd_target = 0 /\ rd_main = <<>>
    /\ rd_all = <<>> /\ rd_thread = <<>> /\ rd_err = "" /\ rd_pc = "off"

------------------------------------------------------------------------------
(* The queue store as a state machine *)

\* the queue file exists, nothing is loaded
QInitFile ==
    /\ qfile \in InitialFiles
    /\ header_lines = NoMem /\ items = NoMem
    /\ qpc = "unloaded"

\* queue_generate.main before its write_queue_md call
QInitGenerated ==
    /\ qfile = <<>>
    /\ header_lines \in HeaderPool
    /\ \E n \in 0..MaxItems : items \in GeneratedItems(n)
    /\ qpc = "loaded"

QInit ==
    /\ (QInitFile \/ QInitGenerated)
    /\ rendered = NoMem /\ first = NoMem /\ runs = 0

\* a process calls parse_queue_md(path)
QParse ==
    /\ qpc \in {"unloaded", "written"}
    /\ LET r == parse_queue_md(qfile)
       IN IF r.raised
          THEN /\ qpc' = "raised"
               /\ UNCHANGED <<header_lines, items, first>>
          ELSE /\ qpc' = "loaded"
               /\ header_lines' = r.header_lines
               /\ items' = r.items
               /\ first' = IF first = NoMem
                           THEN <<[header_lines |-> r.header_lines, items |-> r.items]>>
                           ELSE first
    /\ UNCHANGED <<qfile, rendered, runs>>
    /\ UNCHANGED <<kbvars, chvars, rtvars, cpvars, bvars, dvars, mvars, nvars, rdvars>>

\* write_queue_md(path, header_lines, items)
QWrite ==
    /\ qpc = "loaded"
    /\ runs < MaxRuns
    /\ qfile' = render_queue_md(header_lines, items)
    /\ rendered' = <<[header_lines |-> header_lines, items |-> items]>>
    /\ runs' = runs + 1
    /\ qpc' = "written"
    /\ UNCHANGED <<header_lines, items, first>>
    /\ UNCHANGED <<kbvars, chvars, rtvars, cpvars, bvars, dvars, mvars, nvars, rdvars>>

QNext == QParse \/ QWrite

\* the initial states of SpecQueue: this component starts, the others rest
QueueStart == QInit /\ KbOff /\ ChOff /\ RtOff /\ CpOff /\ BOff /\ DOff /\ MOff /\ NOff /\ RdOff

SpecQueue == QueueStart /\ [][QNext]_vars

------------------------------------------------------------------------------
(* Claims about the queue store *)

IsMarker(line) == StartsWith(line, MarkerPrefix)

\* a marker line whose id int() rejects (or that has no third token)
MalformedMarker(line) ==
    IsMarker(line) /\ (Len(Split(line)) < 3 \/ ~IsIntLiteral(Split(line)[3]))

\* the data model's items: single-line fields, no line that looks like a marker
CollisionFree(hl, its) ==
    /\ \A i \in 1..Len(hl) : ~IsMarker(hl[i]) /\ ~Contains(hl[i], "\n")
    /\ \A i \in 1..Len(its) :
         /\ \A f \in {its[i].status, its[i].type, its[i].lang, its[i].source, its[i].note} :
              ~Contains(f, "\n") /\ ~IsMarker(f)
         /\ \A k \in 1..Len(SplitLines(its[i].text)) : ~IsMarker(SplitLines(its[i].text)[k])

\* the memory holds the result of parsing the file as it is now
ParsedNow == qpc = "loaded" /\ first # NoMem

\* C1 (as claimed; stated for a header that is not empty, so that the default
\* header line render_queue_md substitutes for an empty one plays no part):
\* parsing the output of render_queue_md(h, items) returns exactly (h, items)
\* whenever no field holds a line starting with "## Item ".
C1_RoundTrip ==
    (ParsedNow /\ runs >= 1 /\ rendered[1].header_lines # <<>>
       /\ CollisionFree(rendered[1].header_lines, rendered[1].items))
    => (header_lines = rendered[1].header_lines /\ items = rendered[1].items)

\* index of the j-th marker line of lines (0 when there are fewer)
RECURSIVE MarkerIndex(_, _, _)
MarkerIndex(lines, j, from) ==
    IF from > Len(lines) THEN 0
    ELSE IF IsMarker(lines[from])
         THEN IF j = 1 THEN from ELSE MarkerIndex(lines, j - 1, from + 1)
    ELSE MarkerIndex(lines, j, from + 1)

\* last line of the block of the j-th item
BlockEnd(lines, j) ==
    IF MarkerIndex(lines, j + 1, 1) = 0 THEN Len(lines)
    ELSE MarkerIndex(lines, j + 1, 1) - 1

\* the lines of the j-th block that start with "text:"
TextLines(lines, j) ==
    { k \in (MarkerIndex(lines, j, 1) + 1)..BlockEnd(lines, j) :
        StartsWith(lines[k], TextPrefix) }

FirstTextLine(lines, j) ==
    CHOOSE k \in TextLines(lines, j) : \A m \in TextLines(lines, j) : k <= m

\* C2 (as claimed): once an item's "text:" line has been seen, the item's text is
\* every following line up to the next "## Item " line or the end of the file,
\* in order, joined by newlines, blank lines included, nothing dropped or reset.
C2_TextCapture ==
    ParsedNow =>
      LET lines == SplitLines(qfile)
      IN \A j \in 1..Len(items) :
           TextLines(lines, j) # {} =>
             items[j].text =
               JoinLines(SubSeq(lines, FirstTextLine(lines, j) + 1, BlockEnd(lines, j)))

\* C3 (as claimed; stated for a file whose header is not empty): after every
\* parse / re-serialize run the file still parses to the header and the items
\* the original file parsed to.
C3_RepeatedRunsStable ==
    (ParsedNow /\ runs >= 1 /\ first[1].header_lines # <<>>)
    => (header_lines = first[1].header_lines /\ items = first[1].items)

\* C10: a file holding a malformed marker makes parse_queue_md raise, and the
\* caller receives neither a header nor items, whatever preceded the marker.
C10_MalformedAborts ==
    (qpc \in {"loaded", "raised"}
       /\ \E k \in 1..Len(SplitLines(qfile)) : MalformedMarker(SplitLines(qfile)[k]))
    => (qpc = "raised" /\ header_lines = NoMem /\ items = NoMem /\ first = NoMem)

\* the parse raised on a marker that follows a well-formed item with a body
C10_Witness ==
    /\ qpc = "raised"
    /\ LET lines == SplitLines(qfile)
       IN \E k \in 1..Len(lines) :
            /\ MalformedMarker(lines[k])
            /\ \E m \in 1..(k - 1) : IsMarker(lines[m]) /\ ~MalformedMarker(lines[m])
            /\ \E m \in 1..(k - 1) : lines[m] = LineA

\* the marker lines of the file, in order
RECURSIVE MarkerLines(_)
MarkerLines(lines) ==
    IF lines = <<>> THEN <<>>
    ELSE IF IsMarker(Head(lines)) THEN <<Head(lines)>> \o MarkerLines(Tail(lines))
    ELSE MarkerLines(Tail(lines))

\* what lies between the first "[" and the first "]" of a line holding both
BetweenBrackets(line) ==
    SubSeq(line, IndexOf(line, "[") + 1, IndexOf(line, "]") - 1)

HasBrackets(line) == Contains(line, "[") /\ Contains(line, "]")

\* C11 (as claimed): the j-th marker line of a parsed file opens the j-th item;
\* its item_id is the integer written in the marker and its status is exactly
\* the substring between the first "[" and "]", or "pending" without brackets.
C11_MarkerFields ==
    ParsedNow =>
      LET ms == MarkerLines(SplitLines(qfile))
      IN /\ Len(items) = Len(ms)
         /\ \A j \in 1..Len(ms) :
              /\ items[j].item_id = IntOf(Split(ms[j])[3])
              /\ items[j].status =
                    (IF HasBrackets(ms[j]) THEN BetweenBrackets(ms[j]) ELSE Pending)

\* C11 (amended): as above, but the status is the substring between the first
\* "[" and the first "]" with its surrounding whitespace stripped.
C11_MarkerFieldsStripped ==
    ParsedNow =>
      LET ms == MarkerLines(SplitLines(qfile))
      IN /\ Len(items) = Len(ms)
         /\ \A j \in 1..Len(ms) :
              /\ items[j].item_id = IntOf(Split(ms[j])[3])
              /\ items[j].status =
                    (IF HasBrackets(ms[j]) THEN Strip(BetweenBrackets(ms[j]))
                     ELSE Pending)

\* a parsed file whose second item carries the id 7 written as 007 and the
\* status drafted, and whose last marker has no brackets
C11_Witness ==
    /\ ParsedNow
    /\ Len(items) = 3
    /\ items[2].item_id = 7 /\ items[2].status = Drafted
    /\ ~HasBrackets(MarkerLines(SplitLines(qfile))[3])
    /\ items[3].item_id = 12 /\ items[3].status = Pending

\* the lines that precede the first marker line
Preamble(lines) ==
    IF MarkerIndex(lines, 1, 1) = 0 THEN lines
    ELSE SubSeq(lines, 1, MarkerIndex(lines, 1, 1) - 1)

\* the header returned is the preamble of the file parsed, nothing else
C12_HeaderIsPreamble == ParsedNow => header_lines = Preamble(SplitLines(qfile))

\* C12 (as claimed; the round trip stated for a header that is not empty): the
\* header returned is exactly the lines before the first "## Item " line, and
\* parsing a file written by render_queue_md returns the header it was given.
C12_HeaderPreserved ==
    /\ C12_HeaderIsPreamble
    /\ (ParsedNow /\ runs >= 1 /\ rendered[1].header_lines # <<>>
          /\ CollisionFree(rendered[1].header_lines, rendered[1].items))
       => header_lines = rendered[1].header_lines

\* s.split("\n") of the written file
RECURSIVE FileLines(_)
FileLines(s) ==
    LET i == IndexOf(s, "\n")
    IN IF i = 0 THEN <<s>>
       ELSE <<SubSeq(s, 1, i - 1)>> \o FileLines(SubSeq(s, i + 1, Len(s)))

\* number of output lines that precede the block of the k-th item
RECURSIVE BlockOffset(_, _, _)
BlockOffset(hl, its, k) ==
    IF k = 1 THEN (IF hl # <<>> THEN Len(hl) ELSE 1)
    ELSE BlockOffset(hl, its, k - 1) + 7 + Len(SplitLines(its[k - 1].text))

\* C13: the file written is the header lines (or the line "# X Queue"), then per
\* item, in list order, a blank line, the marker "## Item %03d [status]", the
\* lines type, lang, source, note in that order, the line "text:" and the lines
\* of the body; the output ends with a blank line.
C13_RenderFormat ==
    qpc = "written" =>
      LET hl == rendered[1].header_lines
          its == rendered[1].items
          lines == FileLines(qfile)
      IN /\ Len(lines) = BlockOffset(hl, its, Len(its) + 1) + 1
         /\ lines[Len(lines)] = <<>>
         /\ IF hl # <<>> THEN SubSeq(lines, 1, Len(hl)) = hl
            ELSE lines[1] = <<"#", " ", "X", " ", "Q", "u", "e", "u", "e">>
         /\ \A k \in 1..Len(its) :
              LET o == BlockOffset(hl, its, k)
              IN /\ lines[o + 1] = <<>>
                 /\ lines[o + 2] = MarkerPrefix \o Format03d(its[k].item_id)
                                     \o <<" ", "[">> \o its[k].status \o <<"]">>
                 /\ lines[o + 3] = <<"t", "y", "p", "e", ":", " ">> \o its[k].type
                 /\ lines[o + 4] = <<"l", "a", "n", "g", ":", " ">> \o its[k].lang
                 /\ lines[o + 5] = <<"s", "o", "u", "r", "c", "e", ":", " ">>
                                     \o its[k].source
                 /\ lines[o + 6] = <<"n", "o", "t", "e", ":", " ">> \o its[k].note
                 /\ lines[o + 7] = <<"t", "e", "x", "t", ":">>
                 /\ SubSeq(lines, o + 8, o + 7 + Len(SplitLines(its[k].text)))
                      = SplitLines(its[k].text)

\* a queue of two items was written, the first with a body of three lines
C13_Witness ==
    /\ qpc = "written"
    /\ Len(rendered[1].header_lines) = 2
    /\ Len(rendered[1].items) = 2
    /\ rendered[1].items[1].text = <<"a", "\n", "\n", "b">>
    /\ rendered[1].items[2].text = <<>>

\* the lines of the j-th block that precede its first "text:" line
FieldZone(lines, j) ==
    (MarkerIndex(lines, j, 1) + 1) ..
        (IF TextLines(lines, j) = {} THEN BlockEnd(lines, j)
         ELSE FirstTextLine(lines, j) - 1)

KeyOf(line) == Strip(SubSeq(line, 1, IndexOf(line, ":") - 1))

ValueOf(line) == Strip(SubSeq(line, IndexOf(line, ":") + 1, Len(line)))

\* the field lines of the j-th block that name key
FieldLines(lines, j, key) ==
    { k \in FieldZone(lines, j) : Contains(lines[k], ":") /\ KeyOf(lines[k]) = key }

\* the value the last such line gives, the empty string when there is none
FieldValue(lines, j, key) ==
    IF FieldLines(lines, j, key) = {} THEN <<>>
    ELSE ValueOf(lines[CHOOSE k \in FieldLines(lines, j, key) :
                          \A m \in FieldLines(lines, j, key) : m <= k])

\* C22: each of the fields type, lang, source, note of an item is the value of
\* the last line "<key>: <value>" naming it between the item's marker and its
\* first "text:" line (empty when there is none): such a line sets that field
\* and no other, a line after "text:" sets no field, and each marker starts
\* the fields of its item afresh.
C22_FieldLines ==
    ParsedNow =>
      LET lines == SplitLines(qfile)
      IN \A j \in 1..Len(items) :
           /\ items[j].type = FieldValue(lines, j, KeyType)
           /\ items[j].lang = FieldValue(lines, j, KeyLang)
           /\ items[j].source = FieldValue(lines, j, KeySource)
           /\ items[j].note = FieldValue(lines, j, KeyNote)

\* a parsed file with a type line before "text:", a note line after it, and a
\* second item with a note line of its own
C22_Witness ==
    /\ ParsedNow
    /\ Len(items) = 2
    /\ LET lines == SplitLines(qfile)
       IN /\ FieldLines(lines, 1, KeyType) # {}
          /\ TextLines(lines, 1) # {}
          /\ \E k \in (FirstTextLine(lines, 1) + 1)..BlockEnd(lines, 1) :
                Contains(lines[k], ":") /\ KeyOf(lines[k]) = KeyNote
          /\ FieldLines(lines, 2, KeyNote) # {}
    /\ items[1].type = <<"t">> /\ items[1].note = <<>>
    /\ items[2].type = <<>> /\ items[2].note = <<"n">>

\* a line the parser has no rule for: inside an open item, before the item's
\* "text:" line, neither a marker nor one of the four key lines
Unrecognized(lines, k) ==
    /\ \E j \in 1..Len(MarkerLines(lines)) : k \in FieldZone(lines, j)
    /\ ~(Contains(lines[k], ":")
           /\ KeyOf(lines[k]) \in {KeyType, KeyLang, KeySource, KeyNote})

RECURSIVE WithoutUnrecognized(_, _)
WithoutUnrecognized(lines, k) ==
    IF k > Len(lines) THEN <<>>
    ELSE (IF Unrecognized(lines, k) THEN <<>> ELSE <<lines[k]>>)
            \o WithoutUnrecognized(lines, k + 1)

\* C23: the parse of a file is the parse of the same file without its
\* unrecognized lines: they change no item and no header line, and the parse
\* aborts with them exactly when it aborts without them.
C23_UnrecognizedIgnored ==
    LET lines == SplitLines(qfile)
        r == parse_queue_md(FileOf(WithoutUnrecognized(lines, 1)))
    IN /\ ParsedNow => (~r.raised /\ header_lines = r.header_lines /\ items = r.items)
       /\ qpc = "raised" => r.raised

\* a parsed file with a line of unknown key and a blank line before "text:"
C23_Witness ==
    /\ ParsedNow
    /\ LET lines == SplitLines(qfile)
       IN /\ \E k \in 1..Len(lines) :
                Unrecognized(lines, k) /\ lines[k] = <<"k", ":", " ", "v">>
          /\ \E k \in 1..Len(lines) : Unrecognized(lines, k) /\ lines[k] = <<>>
    /\ Len(items) = 1

\* C24: parse_queue_md returns one item per marker line, in file order, the
\* item open at the end of the input included; the file render_queue_md writes
\* holds the marker of the k-th item of the list at the k-th place, and parsing
\* it returns as many items with the same ids and statuses in the same order.
C24_OrderAndCount ==
    /\ ParsedNow =>
         LET ms == MarkerLines(SplitLines(qfile))
         IN /\ Len(items) = Len(ms)
            /\ \A j \in 1..Len(ms) : items[j].item_id = IntOf(Split(ms[j])[3])
    /\ qpc = "written" =>
         LET its == rendered[1].items
             ms == MarkerLines(SplitLines(qfile))
         IN /\ Len(ms) = Len(its)
            /\ \A k \in 1..Len(its) :
                 ms[k] = MarkerPrefix \o Format03d(its[k].item_id)
                           \o <<" ", "[">> \o its[k].status \o <<"]">>
    /\ (ParsedNow /\ runs >= 1) =>
         /\ Len(items) = Len(rendered[1].items)
         /\ \A k \in 1..Len(items) :
              /\ items[k].item_id = rendered[1].items[k].item_id
              /\ items[k].status = rendered[1].items[k].status

\* three items of distinct ids, not in ascending order, parsed, written and
\* parsed again
C24_Witness ==
    /\ ParsedNow /\ runs >= 1
    /\ Len(items) = 3
    /\ items[1].item_id = 1 /\ items[2].item_id = 12 /\ items[3].item_id = 7

------------------------------------------------------------------------------
(* drafts_to_x.py: main *)

\* text.strip() of a multi-line str is empty
IsBlank(text) == Strip(text) = <<>>

\* positions of the items that are pending with non-blank text, in file order
RECURSIVE PendingFrom(_, _)
PendingFrom(its, j) ==
    IF j > Len(its) THEN <<>>
    ELSE IF its[j].status = Pending /\ ~IsBlank(its[j].text)
         THEN <<j>> \o PendingFrom(its, j + 1)
    ELSE PendingFrom(its, j + 1)

\* pending[: limit] for a limit that is not negative
FirstN(seq, n) == SubSeq(seq, 1, IF n < Len(seq) THEN n ELSE Len(seq))

\* what open_compose / fill_text / save_draft do for one item
DraftOutcomes == {"ok", "timeout", "error"}

\* what page.screenshot does inside an except clause
ShotOutcomes == {"saved", "raised"}

\* the except clause lets an exception out: --debug and the screenshot raised
ShotRaises(debug, seq, shot) == debug /\ seq # "ok" /\ shot = "raised"

\* queue files as queue_generate or an earlier drafts_to_x --mark run wrote them
DraftItems(n) ==
    { its \in [1..n -> [item_id : 1..n, status : {Pending, Drafted}, type : {<<"t">>},
                        lang : {<<"z", "h">>}, source : {<<"s">>},
                        note : {<<>>}, text : {LineA, <<" ">>}]] :
        \A i \in 1..n : its[i].item_id = i }

DraftFiles ==
    { render_queue_md(<<HEADER_PREFIX>>, its) :
        its \in UNION { DraftItems(n) : n \in 0..MaxDraftItems } }

DInit ==
    /\ qfile \in DraftFiles
    /\ header_lines = NoMem /\ items = NoMem
    /\ qpc = "unloaded" /\ rendered = NoMem /\ first = NoMem /\ runs = 0
    /\ d_limit \in 0..MaxLimit
    /\ d_mark \in BOOLEAN
    /\ d_debug \in BOOLEAN
    /\ d_before = <<>> /\ d_todo = <<>> /\ d_k = 0 /\ d_log = <<>>
    /\ d_pc = "start"

dargs == <<d_limit, d_mark, d_debug>>

\* parse_queue_md, the pending filter and the limit; an empty to_process returns
DParse ==
    /\ d_pc = "start"
    /\ LET r == parse_queue_md(qfile)
       IN IF r.raised
          THEN /\ d_pc' = "raised" /\ qpc' = "raised"
               /\ UNCHANGED <<header_lines, items, d_before, d_todo>>
          ELSE /\ header_lines' = r.header_lines
               /\ items' = r.items
               /\ qpc' = "loaded"
               /\ d_before' = r.items
               /\ d_todo' = FirstN(PendingFrom(r.items, 1), d_limit)
               /\ d_pc' = IF FirstN(PendingFrom(r.items, 1), d_limit) = <<>>
                          THEN "done" ELSE "loop"
    /\ UNCHANGED <<qfile, rendered, first, runs, dargs, d_k, d_log>>
    /\ UNCHANGED <<kbvars, chvars, rtvars, cpvars, bvars, mvars, nvars, rdvars>>

\* one iteration of "for item in to_process"
DItem ==
    /\ d_pc = "loop"
    /\ d_k < Len(d_todo)
    /\ \E seq \in DraftOutcomes, shot \in ShotOutcomes :
         LET j == d_todo[d_k + 1]
         IN /\ items' = IF seq = "ok" THEN [items EXCEPT ![j].status = Drafted]
                         ELSE items
            /\ d_log' = Append(d_log, [pos |-> j, seq |-> seq])
            /\ d_pc' = IF ShotRaises(d_debug, seq, shot) THEN "aborted" ELSE "loop"
    /\ d_k' = d_k + 1
    /\ UNCHANGED <<qfile, header_lines, qpc, rendered, first, runs, dargs,
                   d_before, d_todo>>
    /\ UNCHANGED <<kbvars, chvars, rtvars, cpvars, bvars, mvars, nvars, rdvars>>

\* a run that writes the queue back whether or not --mark is given
MarkAlways(mark) == TRUE

\* "if args.mark:"
Mark(mark) == mark

\* after the loop: context.close(), then write_queue_md if --mark
DFinish ==
    /\ d_pc = "loop"
    /\ d_k = Len(d_todo)
    /\ IF Mark(d_mark)
       THEN /\ qfile' = render_queue_md(header_lines, items)
            /\ rendered' = <<[header_lines |-> header_lines, items |-> items]>>
            /\ runs' = runs + 1
            /\ qpc' = "written"
       ELSE UNCHANGED <<qfile, rendered, runs, qpc>>
    /\ d_pc' = "done"
    /\ UNCHANGED <<header_lines, items, first, dargs, d_before, d_todo, d_k, d_log>>
    /\ UNCHANGED <<kbvars, chvars, rtvars, cpvars, bvars, mvars, nvars, rdvars>>

DNext == DParse \/ DItem \/ DFinish

\* the initial states of SpecDrafts: the publisher starts, the others rest
DraftsStart == DInit /\ KbOff /\ ChOff /\ RtOff /\ CpOff /\ BOff /\ MOff /\ NOff /\ RdOff

SpecDrafts == DraftsStart /\ [][DNext]_vars

\* the item at position j was selected: pending, non-blank, among the first
\* --limit such items of the file
Selected(j) ==
    /\ d_before[j].status = Pending
    /\ ~IsBlank(d_before[j].text)
    /\ Cardinality({m \in 1..j : d_before[m].status = Pending
                                   /\ ~IsBlank(d_before[m].text)}) <= d_limit

\* the run is over
RunEnded == d_pc \in {"done", "aborted"}

\* a status differs from the parsed one only as pending -> drafted, and only for
\* a selected item whose draft sequence completed; a failed item stays pending
C14_OnlyPendingToDrafted ==
    d_pc \in {"loop", "done", "aborted"} =>
      /\ Len(items) = Len(d_before)
      /\ \A j \in 1..Len(items) :
           /\ items[j].status # d_before[j].status =>
                /\ d_before[j].status = Pending /\ items[j].status = Drafted
                /\ Selected(j)
                /\ \E e \in 1..Len(d_log) : d_log[e].pos = j /\ d_log[e].seq = "ok"
           /\ [item_id |-> items[j].item_id, type |-> items[j].type,
               lang |-> items[j].lang, source |-> items[j].source,
               note |-> items[j].note, text |-> items[j].text]
              = [item_id |-> d_before[j].item_id, type |-> d_before[j].type,
                 lang |-> d_before[j].lang, source |-> d_before[j].source,
                 note |-> d_before[j].note, text |-> d_before[j].text]
      /\ \A e \in 1..Len(d_log) :
           d_log[e].seq # "ok" => items[d_log[e].pos].status = Pending

\* C14 (as claimed): statuses change only from pending to drafted, only for
\* selected items whose draft sequence completed, a failed item stays pending,
\* and the run continues with the next item: when the run is over every
\* selected item has had its draft sequence attempted.
C14_PublisherTransitions ==
    /\ C14_OnlyPendingToDrafted
    /\ RunEnded => \A j \in 1..Len(d_before) :
                      Selected(j) => \E e \in 1..Len(d_log) : d_log[e].pos = j

\* the run ended after writing the queue back
Rewritten == d_pc = "done" /\ qpc = "written"

\* the items the rewritten file parses to are the items parsed before the run,
\* in the same order, but for the status of the items drafted in this run
C27_ItemsPreserved ==
    Rewritten =>
      LET r == parse_queue_md(qfile)
      IN /\ ~r.raised
         /\ Len(r.items) = Len(d_before)
         /\ \A j \in 1..Len(d_before) :
              /\ r.items[j].item_id = d_before[j].item_id
              /\ r.items[j].type = d_before[j].type
              /\ r.items[j].lang = d_before[j].lang
              /\ r.items[j].source = d_before[j].source
              /\ r.items[j].note = d_before[j].note
              /\ r.items[j].text = d_before[j].text
              /\ r.items[j].status # d_before[j].status =>
                   \E e \in 1..Len(d_log) : d_log[e].pos = j /\ d_log[e].seq = "ok"

\* C27 (as claimed): after a run with --mark the rewritten queue file parses to
\* the header lines and the items parsed before the run, in the same order;
\* only the status of the items drafted in this run differs.
C27_OnlyStatusChanges ==
    /\ C27_ItemsPreserved
    /\ Rewritten => parse_queue_md(qfile).header_lines = header_lines

\* what a run started now on the queue file would select
NextSelection == FirstN(PendingFrom(parse_queue_md(qfile).items, 1), d_limit)

\* C28: the queue file is written at most once in a run, only with --mark,
\* only when items were selected and every one of them has been attempted, and
\* the write ends the run; a run that ended without writing leaves the file as
\* it was, so the next run selects the same items again, those drafted in this
\* run included.
C28_RewriteOnce ==
    /\ [](runs <= 1)
    /\ [][(qfile' # qfile \/ runs' # runs) =>
            /\ d_mark
            /\ d_todo # <<>>
            /\ d_k = Len(d_todo)
            /\ \A i \in 1..Len(d_todo) :
                  \E e \in 1..Len(d_log) : d_log[e].pos = d_todo[i]
            /\ runs' = 1
            /\ d_pc' = "done"]_vars
    /\ []((RunEnded /\ runs = 0)
            => (~parse_queue_md(qfile).raised /\ NextSelection = d_todo))

\* a run without --mark drafted two items and left them pending in the file
C28_Witness ==
    /\ d_pc = "done" /\ ~d_mark /\ runs = 0
    /\ Len(d_log) = 2
    /\ \A e \in 1..Len(d_log) : d_log[e].seq = "ok"
    /\ NextSelection = d_todo

\* a run with --mark wrote the file once, after a drafted and a failed item
C28_WitnessMarked ==
    /\ d_pc = "done" /\ d_mark /\ runs = 1
    /\ Len(d_log) = 2
    /\ d_log[1].seq = "ok" /\ d_log[2].seq = "timeout"

------------------------------------------------------------------------------
(* learn_from_capture.py: _append_kb *)
(* The knowledge-base text is a sequence of fragments: the literal pieces   *)
(* of the f-strings are single elements, a status id is its digits.  The    *)
(* inputs below are built from the same fragments, so "marker in existing"  *)
(* is the search for a window of equal elements.                            *)

\* needle in hay
Occurs(needle, hay) ==
    \E i \in 1..(Len(hay) - Len(needle) + 1) :
        SubSeq(hay, i, i + Len(needle) - 1) = needle

\* hay.count(needle)
Count(needle, hay) ==
    Cardinality({ i \in 1..(Len(hay) - Len(needle) + 1) :
                    SubSeq(hay, i, i + Len(needle) - 1) = needle })

\* marker = f"<!-- status_id:{sid} -->"
Marker(sid) == <<"<!-- status_id:">> \o sid \o <<" -->">>

\* written when the file does not exist yet
KbHeader == <<"# X Lessons KB", "\n", "\n">>

\* points[:5]
Take(seq, n) == SubSeq(seq, 1, IF Len(seq) < n THEN Len(seq) ELSE n)

RECURSIVE PointLines(_)
PointLines(points) ==
    IF points = <<>> THEN <<>>
    ELSE << <<"  - ">> \o Head(points) >> \o PointLines(Tail(points))

\* the list "lines" of _append_kb
EntryLines(data, points, learned_path) ==
    << Marker(data.target_status_id),
       <<"## ">> \o data.target_status_id,
       <<"- source_url: ">> \o data.url,
       <<"- author: ">> \o data.author,
       <<"- learned_note: ">> \o learned_path >>
    \o (IF points # <<>>
        THEN << <<"- top_points:">> >> \o PointLines(Take(points, 5))
        ELSE <<>>)
    \o << <<>> >>

\* the scan before appending: "marker in existing"
AlreadyPresentNever(marker, existing) == FALSE

AlreadyPresent(marker, existing) == Occurs(marker, existing)

\* an append that opens the file for writing instead of appending
append_kb_truncating(exists, content, data, points, learned_path) ==
    IF exists /\ AlreadyPresent(Marker(data.target_status_id), content)
    THEN [ret |-> FALSE, exists |-> exists, content |-> content]
    ELSE [ret |-> TRUE, exists |-> TRUE,
          content |-> JoinLines(EntryLines(data, points, learned_path))
                      \o <<"\n">>]

\* _append_kb: the file afterwards and the returned flag
append_kb(exists, content, data, points, learned_path) ==
    IF exists /\ AlreadyPresent(Marker(data.target_status_id), content)
    THEN [ret |-> FALSE, exists |-> exists, content |-> content]
    ELSE [ret |-> TRUE, exists |-> TRUE,
          content |-> (IF exists THEN content ELSE KbHeader)
                      \o JoinLines(EntryLines(data, points, learned_path))
                      \o <<"\n">>]

\* capture records handed to _append_kb
SidPool == { <<>>, <<"1">>, <<"1", "2">> }
AuthorPool == { <<"A">>, Marker(<<"1">>) }
PointsPool == { <<>>, << <<"p">> >> }

KbData == [target_status_id : SidPool, url : {<<"U">>}, author : AuthorPool]

KbInit ==
    /\ kb_exists \in BOOLEAN
    /\ kb \in (IF kb_exists THEN {<<>>, KbHeader} ELSE {<<>>})
    /\ kb_calls = 0
    /\ kb_last = <<>>
    /\ kb_appended = [s \in SidPool |-> 0]

\* learn_from_capture.main reaches _append_kb(kb_path, data, points, out_path)
AppendKb ==
    /\ kb_calls < MaxCalls
    /\ \E data \in KbData, points \in PointsPool :
         LET r == append_kb(kb_exists, kb, data, points, <<"L">>)
         IN /\ kb' = r.content
            /\ kb_exists' = r.exists
            /\ kb_last' = <<[sid |-> data.target_status_id, existed |-> kb_exists,
                             before |-> kb, ret |-> r.ret]>>
            /\ kb_appended' =
                 IF r.ret
                 THEN [kb_appended EXCEPT ![data.target_status_id] = @ + 1]
                 ELSE kb_appended
    /\ kb_calls' = kb_calls + 1
    /\ UNCHANGED <<qvars, chvars, rtvars, cpvars, bvars, dvars, mvars, nvars, rdvars>>

\* the initial states of SpecKb: this component starts, the others rest
KbStart == KbInit /\ QOff /\ ChOff /\ RtOff /\ CpOff /\ BOff /\ DOff /\ MOff /\ NOff /\ RdOff

SpecKb == KbStart /\ [][AppendKb]_vars

\* C4 (as claimed): after any sequence of _append_kb calls the marker of each
\* status id occurs at most once in the file, and an append for a status id
\* already present writes nothing and returns False.
C4_MarkerAtMostOnce ==
    /\ \A sid \in SidPool : Count(Marker(sid), kb) <= 1
    /\ kb_last # <<>> =>
         ((kb_last[1].existed /\ Occurs(Marker(kb_last[1].sid), kb_last[1].before))
            => (~kb_last[1].ret /\ kb = kb_last[1].before))

\* C4 (amended): each status id is appended at most once, that is at most one
\* call per status id writes an entry and returns True, and a call made while
\* the file already holds the id's marker writes nothing and returns False.
C4_AppendedOncePerId ==
    /\ \A sid \in SidPool : kb_appended[sid] <= 1
    /\ kb_last # <<>> =>
         ((kb_last[1].existed /\ Occurs(Marker(kb_last[1].sid), kb_last[1].before))
            => (~kb_last[1].ret /\ kb = kb_last[1].before))

\* a second append for an id that was appended before: refused, file untouched
C4_Witness ==
    /\ kb_last # <<>>
    /\ ~kb_last[1].ret
    /\ kb_appended[kb_last[1].sid] = 1
    /\ \E sid \in SidPool : sid # kb_last[1].sid /\ kb_appended[sid] = 1

IsPrefixOf(p, seq) == Len(p) <= Len(seq) /\ SubSeq(seq, 1, Len(p)) = p

\* C25: every _append_kb call leaves the content the file had before it as a
\* prefix of the content after it, and a call that skips the append leaves the
\* file as it was.
C25_AppendOnly ==
    [][/\ IsPrefixOf(kb, kb')
       /\ ~kb_last'[1].ret => kb' = kb]_vars

\* an entry was appended to a file that already held an entry of another id
C25_Witness ==
    /\ kb_last # <<>>
    /\ kb_last[1].ret
    /\ \E sid \in SidPool :
          sid # kb_last[1].sid /\ Occurs(Marker(sid), kb_last[1].before)
    /\ Len(kb) > Len(kb_last[1].before)
    /\ IsPrefixOf(kb_last[1].before, kb)

------------------------------------------------------------------------------
(* batch_x_learning.py: chunk_text *)

ChunkStart == [chunks |-> <<>>, buf |-> <<>>, size |-> 0]

\* the loop body that loses the line that opens a new chunk
ChunkStepDropsLine(st, line, max_chars) ==
    LET add == Len(line) + 1
    IN IF st.size + add > max_chars /\ st.buf # <<>>
       THEN [chunks |-> Append(st.chunks, JoinLines(st.buf)), buf |-> <<>>, size |-> 0]
       ELSE [st EXCEPT !.buf = Append(st.buf, line), !.size = st.size + add]

\* one iteration of "for line in text.splitlines()"
ChunkStep(st, line, max_chars) ==
    LET add == Len(line) + 1
    IN IF st.size + add > max_chars /\ st.buf # <<>>
       THEN [chunks |-> Append(st.chunks, JoinLines(st.buf)),
             buf |-> <<line>>, size |-> add]
       ELSE [st EXCEPT !.buf = Append(st.buf, line), !.size = st.size + add]

RECURSIVE ChunkLoop(_, _, _)
ChunkLoop(st, lines, max_chars) ==
    IF lines = <<>> THEN st
    ELSE ChunkLoop(ChunkStep(st, Head(lines), max_chars), Tail(lines), max_chars)

chunk_text(text, max_chars) ==
    LET st == ChunkLoop(ChunkStart, SplitLines(text), max_chars)
    IN IF st.buf # <<>> THEN Append(st.chunks, JoinLines(st.buf)) ELSE st.chunks

RECURSIVE Texts(_)
Texts(n) ==
    IF n = 0 THEN { <<>> }
    ELSE LET shorter == Texts(n - 1)
         IN shorter \cup { Append(t, c) : t \in {s \in shorter : Len(s) = n - 1},
                                          c \in {"a", "\n"} }

ChInit ==
    /\ ch_text \in Texts(MaxTextLen)
    /\ ch_max \in 1..MaxCap
    /\ ch_chunks = <<>>
    /\ ch_pc = "call"

\* chunks = chunk_text(text, max_chars)
ChunkText ==
    /\ ch_pc = "call"
    /\ ch_chunks' = chunk_text(ch_text, ch_max)
    /\ ch_pc' = "returned"
    /\ UNCHANGED <<ch_text, ch_max>>
    /\ UNCHANGED <<qvars, kbvars, rtvars, cpvars, bvars, dvars, mvars, nvars, rdvars>>

\* the initial states of SpecChunk: this component starts, the others rest
ChunkCallStart == ChInit /\ QOff /\ KbOff /\ RtOff /\ CpOff /\ BOff /\ DOff /\ MOff /\ NOff /\ RdOff

SpecChunk == ChunkCallStart /\ [][ChunkText]_vars

\* C5 (as claimed): no returned chunk is longer than max_chars.
C5_ChunkWithinCap ==
    ch_pc = "returned" => \A k \in 1..Len(ch_chunks) : Len(ch_chunks[k]) <= ch_max

\* C6 (as claimed): joining the chunks with the line separator gives back the
\* text exactly.
C6_JoinIsText == ch_pc = "returned" => JoinLines(ch_chunks) = ch_text

\* s.split("\n")
RECURSIVE SplitNl(_)
SplitNl(s) ==
    LET i == IndexOf(s, "\n")
    IN IF i = 0 THEN <<s>>
       ELSE <<SubSeq(s, 1, i - 1)>> \o SplitNl(SubSeq(s, i + 1, Len(s)))

RECURSIVE ChunkLines(_)
ChunkLines(chunks) ==
    IF chunks = <<>> THEN <<>> ELSE SplitNl(Head(chunks)) \o ChunkLines(Tail(chunks))

\* the text without the one line break it may end with
WithoutFinalBreak(text) ==
    IF text # <<>> /\ text[Len(text)] = "\n" THEN SubSeq(text, 1, Len(text) - 1)
    ELSE text

\* C6 (amended): joining the chunks with "\n" gives back the text up to one
\* final line break, which is lost; the lines of the chunks, in order, are
\* exactly the lines of the text, each whole and once.
C6_JoinIsTextUpToFinalBreak ==
    ch_pc = "returned" =>
      /\ JoinLines(ch_chunks) = WithoutFinalBreak(ch_text)
      /\ ChunkLines(ch_chunks) = SplitLines(ch_text)

\* a text ending in a line break that was cut into several chunks
C6_Witness ==
    /\ ch_pc = "returned"
    /\ Len(ch_chunks) >= 2
    /\ ch_text[Len(ch_text)] = "\n"
    /\ \E k \in 1..Len(ch_chunks) : Contains(ch_chunks[k], "\n")

------------------------------------------------------------------------------
(* read_x_post.py: locating the target article in the virtualized feed *)
(* An article is what the two lookups yield for it: perma is the status id  *)
(* of its timestamp permalink ("" when it has none), links the status ids   *)
(* of the status links inside it, in document order.                       *)

\* a loop that makes one attempt too many
AttemptsOneMore == 8 + 1

\* attempts = 8
ATTEMPTS == 8

\* what page.mouse.wheel / page.wait_for_timeout do
ScrollOutcomes == {"ok", "raised"}

\* an inner try that lets the failure of the scroll out of the loop
ScrollEndsLoopOnFailure(outcome) == outcome = "raised"

\* the inner "try: wheel, wait / except Exception: pass": whether it ends the loop
ScrollEndsLoop(outcome) == FALSE

_status_from_time_permalink(article) == article.perma

_article_status_links(article) == article.links

InSeq(x, seq) == \E i \in 1..Len(seq) : seq[i] = x

\* a lookup that takes the first article carrying the id anywhere
_find_target_article_first_mention(page, status_id) ==
    LET mention == { i \in 1..Len(page) :
                       \/ _status_from_time_permalink(page[i]) = status_id
                       \/ InSeq(status_id, _article_status_links(page[i])) }
    IN IF Len(page) = 0
       THEN [found |-> FALSE, index |-> 0, err |-> "No tweet article found on page"]
       ELSE IF status_id = ""
       THEN [found |-> TRUE, index |-> 1, err |-> ""]
       ELSE IF mention # {}
       THEN [found |-> TRUE,
             index |-> CHOOSE i \in mention : \A j \in mention : i <= j, err |-> ""]
       ELSE [found |-> FALSE, index |-> 0,
             err |-> "Target status id not found on page"]

\* _find_target_article(page, status_id): the article's index, or the error
_find_target_article(page, status_id) ==
    LET exact == { i \in 1..Len(page) :
                     /\ _status_from_time_permalink(page[i]) # ""
                     /\ _status_from_time_permalink(page[i]) = status_id }
        linked == { i \in 1..Len(page) :
                      InSeq(status_id, _article_status_links(page[i])) }
        least(S) == CHOOSE i \in S : \A j \in S : i <= j
    IN IF Len(page) = 0
       THEN [found |-> FALSE, index |-> 0, err |-> "No tweet article found on page"]
       ELSE IF status_id = ""
       THEN [found |-> TRUE, index |-> 1, err |-> ""]
       ELSE IF exact # {}
       THEN [found |-> TRUE, index |-> least(exact), err |-> ""]
       ELSE IF linked # {}
       THEN [found |-> TRUE, index |-> least(linked), err |-> ""]
       ELSE [found |-> FALSE, index |-> 0,
             err |-> "Target status id not found on page"]

Target == "t"
OtherPost == [perma |-> "o", links |-> <<"o">>]
TargetPost == [perma |-> Target, links |-> <<Target>>]
QuotingPost == [perma |-> "o", links |-> <<"o", Target>>]
NoTimePost == [perma |-> "", links |-> <<Target>>]

\* pages the feed renders while the target is not mounted, and once it is
DecoyPages == { <<>>, <<OtherPost>> }
HitPages == { <<TargetPost>>, <<OtherPost, NoTimePost>>, <<QuotingPost, TargetPost>> }

\* the page the k-th call of _find_target_article sees (k counted from 0)
PageAt(k) == IF k < rt_appear THEN rt_decoy ELSE rt_hit

RtInit ==
    /\ rt_sid \in {"", Target}
    /\ rt_appear \in 0..MaxAbsent
    /\ rt_decoy \in DecoyPages
    /\ rt_hit \in HitPages
    /\ rt_i = 0 /\ rt_finds = 0 /\ rt_scrolls = 0 /\ rt_scroll_errs = 0
    /\ rt_last_err = "" /\ rt_result = 0
    /\ rt_pc = "home"

rtenv == <<rt_sid, rt_appear, rt_decoy, rt_hit>>

\* page.keyboard.press("Home"), wait; an exception here is swallowed
RtHome ==
    /\ rt_pc = "home"
    /\ rt_pc' = "find"
    /\ UNCHANGED <<rtenv, rt_i, rt_finds, rt_scrolls, rt_scroll_errs, rt_last_err,
                   rt_result>>
    /\ UNCHANGED <<qvars, kbvars, chvars, cpvars, bvars, dvars, mvars, nvars, rdvars>>

\* one "try: return _find_target_article(...)" of the loop, with its except
RtFind ==
    /\ rt_pc = "find"
    /\ LET r == _find_target_article(PageAt(rt_finds), rt_sid)
       IN IF r.found
          THEN /\ rt_result' = r.index
               /\ rt_pc' = "returned"
               /\ UNCHANGED rt_last_err
          ELSE /\ rt_last_err' = r.err
               /\ rt_pc' = IF rt_i = ATTEMPTS - 1 THEN "raised" ELSE "scroll"
               /\ UNCHANGED rt_result
    /\ rt_finds' = rt_finds + 1
    /\ UNCHANGED <<rtenv, rt_i, rt_scrolls, rt_scroll_errs>>
    /\ UNCHANGED <<qvars, kbvars, chvars, cpvars, bvars, dvars, mvars, nvars, rdvars>>

\* page.mouse.wheel(0, 1200), wait; an exception here is swallowed; then the
\* next iteration, or the end of the loop and "raise last_err"
RtScroll ==
    /\ rt_pc = "scroll"
    /\ rt_scrolls' = rt_scrolls + 1
    /\ rt_i' = rt_i + 1
    /\ \E outcome \in ScrollOutcomes :
         /\ rt_scroll_errs' = IF outcome = "raised" THEN rt_scroll_errs + 1
                               ELSE rt_scroll_errs
         /\ rt_pc' = IF ScrollEndsLoop(outcome) THEN "raised"
                      ELSE IF rt_i + 1 < ATTEMPTS THEN "find" ELSE "raised"
    /\ UNCHANGED <<rtenv, rt_finds, rt_last_err, rt_result>>
    /\ UNCHANGED <<qvars, kbvars, chvars, cpvars, bvars, dvars, mvars, nvars, rdvars>>

RtNext == RtHome \/ RtFind \/ RtScroll

\* the initial states of SpecRetry: this component starts, the others rest
RetryStart == RtInit /\ QOff /\ KbOff /\ ChOff /\ CpOff /\ BOff /\ DOff /\ MOff /\ NOff /\ RdOff

SpecRetry == RetryStart /\ [][RtNext]_vars

\* the target is on the page: some article carries its id
TargetOn(page) ==
    \E i \in 1..Len(page) : page[i].perma = rt_sid \/ InSeq(rt_sid, page[i].links)

\* the feed of the claim: target absent for the first rt_appear find attempts
AbsentThenPresent == rt_sid # "" /\ ~TargetOn(rt_decoy) /\ TargetOn(rt_hit)

\* C7: in a feed where the target is absent for the first N find attempts and
\* present afterwards, the retry returns the target after exactly N scrolls
\* when N < 8 and raises when N >= 8.
C7_ScrollCount ==
    AbsentThenPresent =>
      /\ rt_pc = "returned" =>
           /\ rt_appear < 8
           /\ rt_scrolls = rt_appear
           /\ rt_result \in 1..Len(rt_hit)
           /\ (rt_hit[rt_result].perma = rt_sid \/ InSeq(rt_sid, rt_hit[rt_result].links))
      /\ rt_pc = "raised" => (rt_appear >= 8 /\ rt_last_err # "")

\* the target showed up at the last attempt the loop makes
C7_Witness ==
    AbsentThenPresent /\ rt_pc = "returned" /\ rt_appear = 7 /\ rt_scrolls = 7

\* the retry is over
RetryOver == rt_pc \in {"returned", "raised"}

\* the loop under fair scheduling: a step that can be taken is taken
SpecRetryFair == RetryStart /\ [][RtNext]_vars /\ WF_vars(RtNext)

\* never more than 8 find attempts nor 7 scrolls, a scroll only after a failed
\* attempt that was not the last; the error raised is that of the 8th attempt,
\* no article is returned with it; a failing scroll does not end the loop
C19_Bounds ==
    /\ rt_finds <= 8 /\ rt_scrolls <= 7
    /\ rt_scrolls <= rt_finds
    /\ rt_pc = "find" => rt_scrolls = rt_finds
    /\ rt_pc = "raised" =>
         /\ rt_finds = 8 /\ rt_scrolls = 7
         /\ rt_result = 0
         /\ rt_last_err # ""
         /\ rt_last_err = _find_target_article(PageAt(7), rt_sid).err
    /\ rt_pc = "returned" => (rt_result >= 1 /\ rt_scrolls = rt_finds - 1)

\* C19: the retry always terminates, after at most 8 find attempts and at most 7
\* scrolls; when all 8 attempts fail it raises the failure of the last attempt
\* and returns no node; failures of the scroll and wait calls do not end it.
C19_BoundedRetry == []C19_Bounds /\ <>RetryOver

\* all 8 attempts failed and the error was raised, although scrolls had failed
C19_Witness ==
    /\ rt_pc = "raised"
    /\ rt_finds = 8 /\ rt_scrolls = 7
    /\ rt_scroll_errs >= 2
    /\ rt_last_err = "Target status id not found on page"

\* the page the call that returned was looking at
ReturnedFrom == PageAt(rt_finds - 1)

\* C20: with a target id, if some article of the page has a timestamp permalink
\* resolving to it, the article returned is such an article (the first), even if
\* an earlier article links to the id in its body; an article matching only by
\* a link is returned only when no article has a matching permalink.
C20_ExactPreferred ==
    (rt_pc = "returned" /\ rt_sid # "") =>
      LET page == ReturnedFrom
          exact == { i \in 1..Len(page) : page[i].perma = rt_sid }
      IN /\ rt_result \in 1..Len(page)
         /\ exact # {} => (rt_result \in exact /\ \A i \in exact : rt_result <= i)
         /\ page[rt_result].perma # rt_sid =>
              (exact = {} /\ InSeq(rt_sid, page[rt_result].links))

\* the target was returned from behind a post that quotes it
C20_Witness ==
    /\ rt_pc = "returned" /\ rt_sid = Target
    /\ ReturnedFrom = <<QuotingPost, TargetPost>>
    /\ rt_result = 2

------------------------------------------------------------------------------
(* Status URLs: re.search(r"/status/(\d+)", url) over a URL given as its    *)
(* fragments, "/status/" being one fragment and every digit one.            *)

RECURSIVE DigitRun(_)
DigitRun(s) ==
    IF s # <<>> /\ Head(s) \in Digits THEN <<Head(s)>> \o DigitRun(Tail(s)) ELSE <<>>

extract_status_id(url) ==
    LET hits == { i \in 1..(Len(url) - 1) : url[i] = "/status/" /\ url[i + 1] \in Digits }
    IN IF hits = {} THEN <<>>
       ELSE DigitRun(SubSeq(url, (CHOOSE i \in hits : \A j \in hits : i <= j) + 1, Len(url)))

------------------------------------------------------------------------------
(* run_x_capture_analyze.py: _capture_single, _run and single-link main *)
(* A command is a list of arguments, an argument a sequence of fragments.   *)

HeadlessFlag == <<"--headless">>

\* the command list _capture_single builds
CaptureCmd(url, headless, proxy, cookie) ==
    << <<"python">>, <<"read_x_post.py">>, url, <<"--browser">>, <<"chromium">>,
       <<"--timeout">>, <<"180000">>,
       <<"--output">>, <<"captured/">> \o extract_status_id(url) \o <<".json">> >>
    \o (IF headless THEN <<HeadlessFlag>> ELSE <<>>)
    \o (IF Strip(proxy) # <<>> THEN << <<"--proxy">>, Strip(proxy) >> ELSE <<>>)
    \o (IF cookie = "exists" THEN << <<"--cookie-file">>, <<"cookie.txt">> >> ELSE <<>>)

\* retry_cmd = [c for c in cmd if c != "--headless"]
RetryCmd(cmd) == SelectSeq(cmd, LAMBDA c : c # HeadlessFlag)

\* the except branch retries whatever the mode was
FallbackAlways(headless) == TRUE

\* "if not headless: raise": the except branch goes on only in headless mode
Fallback(headless) == headless

\* what a _run call can do: rc = 0, rc # 0 (RuntimeError), or subprocess.run
\* itself raising (not a RuntimeError)
RunOutcomes == {"ok", "fail", "crash"}

StatusUrl == <<"https://x.com/u", "/status/", "1">>
ProfileUrl == <<"https://x.com/u">>

CpInit ==
    /\ cp_url \in {StatusUrl, ProfileUrl}
    /\ cp_headless \in BOOLEAN
    /\ cp_proxy \in { <<>>, <<" ">>, <<"p">>, HeadlessFlag }
    /\ cp_cookie \in {"none", "missing", "exists"}
    /\ cp_cmd = <<>> /\ cp_runs = <<>> /\ cp_outcomes = <<>>
    /\ cp_mode = ""
    /\ cp_pc = "start"
    /\ cp_purpose \in {"tutorial", "viral"}
    /\ cp_steps = <<>>

cpargs == <<cp_url, cp_headless, cp_proxy, cp_cookie, cp_purpose>>

\* the status id check and the construction of cmd
CpStart ==
    /\ cp_pc = "start"
    /\ IF extract_status_id(cp_url) = <<>>
       THEN cp_pc' = "raised" /\ UNCHANGED cp_cmd
       ELSE /\ cp_cmd' = CaptureCmd(cp_url, cp_headless, cp_proxy, cp_cookie)
            /\ cp_pc' = "run"
    /\ UNCHANGED <<cpargs, cp_runs, cp_outcomes, cp_mode, cp_steps>>
    /\ UNCHANGED <<qvars, kbvars, chvars, rtvars, bvars, dvars, mvars, nvars, rdvars>>

\* out = _run(cmd, cwd=XOPS_DIR) inside the try
CpRun ==
    /\ cp_pc = "run"
    /\ \E o \in RunOutcomes :
         /\ cp_runs' = Append(cp_runs, cp_cmd)
         /\ cp_outcomes' = Append(cp_outcomes, o)
         /\ cp_steps' = Append(cp_steps, [step |-> "capture", outcome |-> o])
         /\ IF o = "ok"
            THEN /\ cp_pc' = "returned"
                 /\ cp_mode' = IF cp_headless THEN "headless" ELSE "headed"
            ELSE /\ cp_pc' = IF o = "fail" /\ Fallback(cp_headless)
                             THEN "fallback" ELSE "raised"
                 /\ UNCHANGED cp_mode
    /\ UNCHANGED <<cpargs, cp_cmd>>
    /\ UNCHANGED <<qvars, kbvars, chvars, rtvars, bvars, dvars, mvars, nvars, rdvars>>

\* out2 = _run(retry_cmd, cwd=XOPS_DIR) inside the except
CpFallback ==
    /\ cp_pc = "fallback"
    /\ \E o \in RunOutcomes :
         /\ cp_runs' = Append(cp_runs, RetryCmd(cp_cmd))
         /\ cp_outcomes' = Append(cp_outcomes, o)
         /\ cp_steps' = Append(cp_steps, [step |-> "capture", outcome |-> o])
         /\ IF o = "ok"
            THEN cp_pc' = "returned" /\ cp_mode' = "headed-fallback"
            ELSE cp_pc' = "raised" /\ UNCHANGED cp_mode
    /\ UNCHANGED <<cpargs, cp_cmd>>
    /\ UNCHANGED <<qvars, kbvars, chvars, rtvars, bvars, dvars, mvars, nvars, rdvars>>

\* a _run that returns the output whatever the return code was
RunRaisesNever(o) == FALSE

\* _run raises: RuntimeError for rc # 0, or whatever subprocess.run raised
RunRaises(o) == o # "ok"

\* main, single-link mode: _learn_single(args.url) after _capture_single returned
CpLearn ==
    /\ cp_pc = "returned"
    /\ \E o \in RunOutcomes :
         /\ cp_steps' = Append(cp_steps, [step |-> "learn", outcome |-> o])
         /\ cp_pc' = IF RunRaises(o) THEN "raised" ELSE "learned"
    /\ UNCHANGED <<cpargs, cp_cmd, cp_runs, cp_outcomes, cp_mode>>
    /\ UNCHANGED <<qvars, kbvars, chvars, rtvars, bvars, dvars, mvars, nvars, rdvars>>

\* main: result["capture"], then _run_tutorial or _run_viral as purpose says
CpAnalysis ==
    /\ cp_pc = "learned"
    /\ \E o \in RunOutcomes :
         /\ cp_steps' = Append(cp_steps, [step |-> cp_purpose, outcome |-> o])
         /\ cp_pc' = IF RunRaises(o) THEN "raised" ELSE "analysed"
    /\ UNCHANGED <<cpargs, cp_cmd, cp_runs, cp_outcomes, cp_mode>>
    /\ UNCHANGED <<qvars, kbvars, chvars, rtvars, bvars, dvars, mvars, nvars, rdvars>>

\* main: print(json.dumps(result, ...))
CpPrint ==
    /\ cp_pc = "analysed"
    /\ cp_steps' = Append(cp_steps, [step |-> "print", outcome |-> "ok"])
    /\ cp_pc' = "printed"
    /\ UNCHANGED <<cpargs, cp_cmd, cp_runs, cp_outcomes, cp_mode>>
    /\ UNCHANGED <<qvars, kbvars, chvars, rtvars, bvars, dvars, mvars, nvars, rdvars>>

CpNext == CpStart \/ CpRun \/ CpFallback \/ CpLearn \/ CpAnalysis \/ CpPrint

\* the initial states of SpecCapture: this component starts, the others rest
CaptureStart == CpInit /\ QOff /\ KbOff /\ ChOff /\ RtOff /\ BOff /\ DOff /\ MOff /\ NOff /\ RdOff

SpecCapture == CaptureStart /\ [][CpNext]_vars

\* C8: the capture command runs at most twice; a second run happens only after
\* a failed headless first run and is itself headed; a headed run that fails is
\* the last run and its failure propagates.
C8_FallbackOnce ==
    /\ Len(cp_runs) <= 2
    /\ Len(cp_runs) = 2 =>
         /\ cp_headless
         /\ InSeq(HeadlessFlag, cp_runs[1])
         /\ cp_outcomes[1] = "fail"
         /\ ~InSeq(HeadlessFlag, cp_runs[2])
    /\ \A k \in 1..Len(cp_runs) :
         (~InSeq(HeadlessFlag, cp_runs[k]) /\ cp_outcomes[k] # "ok")
           => (k = Len(cp_runs) /\ cp_pc = "raised")

\* the headed fallback ran and failed too: the capture ends in an error
C8_Witness ==
    /\ Len(cp_runs) = 2
    /\ cp_outcomes = <<"fail", "fail">>
    /\ cp_pc = "raised"

\* the rank of a step in the pipeline
StepRank(step) ==
    IF step = "capture" THEN 1 ELSE IF step = "learn" THEN 2
    ELSE IF step = "print" THEN 4 ELSE 3

\* the step at position i is the headless capture run the fallback follows
RetriedCapture(i) ==
    /\ i = 1 /\ cp_headless
    /\ cp_steps[1] = [step |-> "capture", outcome |-> "fail"]

\* C30: the steps of a single-link run start in the order capture, learn,
\* analysis, print; learn starts only right after a capture run that succeeded,
\* the analysis only right after a learn step that succeeded, the result is
\* printed only right after an analysis that succeeded, and a step that fails
\* (for capture: a run the headed fallback does not follow) is the last step
\* of the run, which ends raising.
C30_PipelineOrder ==
    /\ \A i, j \in 1..Len(cp_steps) :
          i < j => /\ StepRank(cp_steps[i].step) <= StepRank(cp_steps[j].step)
                   /\ StepRank(cp_steps[i].step) = StepRank(cp_steps[j].step)
                         => cp_steps[i].step = "capture"
    /\ \A i \in 1..Len(cp_steps) :
          /\ StepRank(cp_steps[i].step) > 1 =>
                /\ i > 1
                /\ StepRank(cp_steps[i - 1].step) = StepRank(cp_steps[i].step) - 1
                /\ cp_steps[i - 1].outcome = "ok"
          /\ StepRank(cp_steps[i].step) = 3 => cp_steps[i].step = cp_purpose
          /\ (cp_steps[i].outcome # "ok" /\ ~RetriedCapture(i))
                => (i = Len(cp_steps) /\ cp_pc = "raised")
    /\ cp_pc = "printed" =>
          /\ Len(cp_steps) >= 4
          /\ cp_steps[Len(cp_steps)].step = "print"

\* the headed fallback captured, learn succeeded and the analysis failed
C30_Witness ==
    /\ cp_pc = "raised"
    /\ Len(cp_steps) = 4
    /\ cp_steps[1] = [step |-> "capture", outcome |-> "fail"]
    /\ cp_steps[2] = [step |-> "capture", outcome |-> "ok"]
    /\ cp_steps[3] = [step |-> "learn", outcome |-> "ok"]
    /\ cp_steps[4] = [step |-> "viral", outcome |-> "fail"]

\* a run that printed its result
C30_WitnessPrinted ==
    /\ cp_pc = "printed"
    /\ cp_mode = "headless"
    /\ cp_steps[Len(cp_steps)].step = "print"

------------------------------------------------------------------------------
(* batch_x_learning.py: load_links, capture_if_needed and the loop of main *)

Link1 == <<"https://x.com/u", "/status/", "1">>
Link2 == <<"https://x.com/v", "/status/", "2">>
BadLink == <<"https://x.com/u">>

\* lines of a links file
LinkLinePool == { Link1, <<" ">> \o Link2 \o <<" ">>, BadLink, <<"#", "c">>, <<>> }

RECURSIVE LinkFiles(_)
LinkFiles(n) ==
    IF n = 0 THEN { <<>> }
    ELSE LET shorter == LinkFiles(n - 1)
         IN shorter \cup { Append(f, l) : f \in {g \in shorter : Len(g) = n - 1},
                                          l \in LinkLinePool }

RECURSIVE load_links(_)
load_links(raws) ==
    IF raws = <<>> THEN <<>>
    ELSE LET line == Strip(Head(raws))
         IN IF line = <<>> \/ line[1] = "#" THEN load_links(Tail(raws))
            ELSE <<line>> \o load_links(Tail(raws))

\* what the fetch script can do: leave a capture, leave none, exit non-zero
FetchOutcomes == {"captured", "nothing", "failed"}

\* the except branch that forgets the failure
RecordErrorDropped(errors, entry) == errors

\* errors.append(...)
RecordError(errors, entry) == Append(errors, entry)

\* the body of "for link in links" for one link; fetched is what the fetch
\* script does if capture_if_needed runs it
HandleLink(link, fetch, caps, its, errors, fetched) ==
    LET sid == extract_status_id(link)
        runs_fetch == sid # <<>> /\ caps[sid] = "none" /\ fetch
        caps2 == IF runs_fetch /\ fetched = "captured"
                 THEN [caps EXCEPT ![sid] = "good"] ELSE caps
    IN IF sid = <<>>
       THEN [caps |-> caps, items |-> its,
             errors |-> RecordError(errors, link \o <<": ", "Invalid X link">>)]
       ELSE IF runs_fetch /\ fetched = "failed"
       THEN [caps |-> caps, items |-> its,
             errors |-> RecordError(errors, link \o <<": ", "CalledProcessError">>)]
       ELSE IF caps2[sid] = "none"
       THEN [caps |-> caps2, items |-> its,
             errors |-> RecordError(errors, <<"missing capture: ">> \o link)]
       ELSE IF caps2[sid] = "bad"
       THEN [caps |-> caps2, items |-> its,
             errors |-> RecordError(errors, link \o <<": ", "JSONDecodeError">>)]
       ELSE [caps |-> caps2, errors |-> errors,
             items |-> Append(its, [status_id |-> sid, url |-> link])]

\* the content of the note: total_links and the posts (grouped by category)
render_md(its, total) == [total_links |-> total, posts |-> its]

\* os.getenv of NOTION_TOKEN / NOTION_DATABASE_ID
NotionEnv == {"set", "no_token", "no_db"}

\* what notion_create_page does: returns the page id or raises
NotionOutcomes == {"created", "failed"}

MissingEnv == <<"Notion sync requested but NOTION_TOKEN or NOTION_DATABASE_ID missing">>
SyncFailed == <<"Notion sync failed: ", "HTTPError">>

\* a Notion step that lets the failure of notion_create_page out
notion_sync_fail_fast(notion, env, outcome, errors) ==
    IF ~notion THEN [errors |-> errors, page_id |-> "", raised |-> FALSE]
    ELSE IF env # "set"
         THEN [errors |-> RecordError(errors, MissingEnv), page_id |-> "",
               raised |-> FALSE]
    ELSE IF outcome = "created"
         THEN [errors |-> errors, page_id |-> "page", raised |-> FALSE]
    ELSE [errors |-> errors, page_id |-> "", raised |-> TRUE]

\* "if args.notion:" of main
notion_sync(notion, env, outcome, errors) ==
    IF ~notion THEN [errors |-> errors, page_id |-> "", raised |-> FALSE]
    ELSE IF env # "set"
         THEN [errors |-> RecordError(errors, MissingEnv), page_id |-> "",
               raised |-> FALSE]
    ELSE IF outcome = "created"
         THEN [errors |-> errors, page_id |-> "page", raised |-> FALSE]
    ELSE [errors |-> RecordError(errors, SyncFailed), page_id |-> "",
          raised |-> FALSE]

bpost == <<b_notion, b_out, b_snap, b_page_id, b_report>>

BInit ==
    /\ b_file \in LinkFiles(MaxLinks)
    /\ b_fetch \in BOOLEAN
    /\ b_caps \in [{<<"1">>, <<"2">>} -> {"none", "good", "bad"}]
    /\ b_notion \in BOOLEAN
    /\ b_links = <<>> /\ b_i = 0 /\ b_items = <<>> /\ b_errors = <<>>
    /\ b_out = <<>> /\ b_snap = <<>> /\ b_page_id = "" /\ b_report = <<>>
    /\ b_pc = "load"

\* links = load_links(links_file)
BLoad ==
    /\ b_pc = "load"
    /\ b_links' = load_links(b_file)
    /\ b_pc' = "loop"
    /\ UNCHANGED <<b_file, b_fetch, b_caps, b_i, b_items, b_errors, bpost>>
    /\ UNCHANGED <<qvars, kbvars, chvars, rtvars, cpvars, dvars, mvars, nvars, rdvars>>

\* one iteration of the loop
BLink ==
    /\ b_pc = "loop"
    /\ b_i < Len(b_links)
    /\ \E fetched \in FetchOutcomes :
         LET r == HandleLink(b_links[b_i + 1], b_fetch, b_caps, b_items, b_errors, fetched)
         IN /\ b_caps' = r.caps
            /\ b_items' = r.items
            /\ b_errors' = r.errors
    /\ b_i' = b_i + 1
    /\ UNCHANGED <<b_file, b_fetch, b_links, b_pc, bpost>>
    /\ UNCHANGED <<qvars, kbvars, chvars, rtvars, cpvars, dvars, mvars, nvars, rdvars>>

\* the loop is over: render_md(grouped, len(links), name) is written to out_md
BWriteOut ==
    /\ b_pc = "loop"
    /\ b_i = Len(b_links)
    /\ b_out' = <<render_md(b_items, Len(b_links))>>
    /\ b_pc' = "written"
    /\ UNCHANGED <<b_file, b_fetch, b_caps, b_links, b_i, b_items, b_errors,
                   b_notion, b_snap, b_page_id, b_report>>
    /\ UNCHANGED <<qvars, kbvars, chvars, rtvars, cpvars, dvars, mvars, nvars, rdvars>>

\* the Notion step: skipped, unconfigured, page created, or request failed
BNotion ==
    /\ b_pc = "written"
    /\ \E env \in NotionEnv, outcome \in NotionOutcomes :
         LET r == notion_sync(b_notion, env, outcome, b_errors)
         IN /\ b_errors' = r.errors
            /\ b_page_id' = r.page_id
            /\ b_pc' = IF r.raised THEN "aborted" ELSE "synced"
    /\ b_snap' = <<[items |-> b_items, errors |-> b_errors, out |-> b_out]>>
    /\ UNCHANGED <<b_file, b_fetch, b_caps, b_links, b_i, b_items, b_notion,
                   b_out, b_report>>
    /\ UNCHANGED <<qvars, kbvars, chvars, rtvars, cpvars, dvars, mvars, nvars, rdvars>>

\* the result object is built from links, items and errors and printed
BDone ==
    /\ b_pc = "synced"
    /\ b_report' = <<[links |-> Len(b_links), processed |-> Len(b_items),
                      output |-> b_out, notion_page_id |-> b_page_id,
                      errors |-> b_errors]>>
    /\ b_pc' = "done"
    /\ UNCHANGED <<b_file, b_fetch, b_caps, b_links, b_i, b_items, b_errors,
                   b_notion, b_out, b_snap, b_page_id>>
    /\ UNCHANGED <<qvars, kbvars, chvars, rtvars, cpvars, dvars, mvars, nvars, rdvars>>

BNext == BLoad \/ BLink \/ BWriteOut \/ BNotion \/ BDone

\* the initial states of SpecBatch: this component starts, the others rest
BatchStart == BInit /\ QOff /\ KbOff /\ ChOff /\ RtOff /\ CpOff /\ DOff /\ MOff /\ NOff /\ RdOff

SpecBatch == BatchStart /\ [][BNext]_vars

\* the errors entry is one of the two forms the loop writes for this link
NamesLink(entry, link) ==
    \/ entry = <<"missing capture: ">> \o link
    \/ (StartsWith(entry, link) /\ Len(entry) = Len(link) + 2
          /\ entry[Len(link) + 1] = ": ")

\* how many of the first n links are this link
Occurrences(link, n) == Cardinality({ k \in 1..n : b_links[k] = link })

\* C9: every link handled so far became exactly one item or one errors entry
\* naming it (entries of the Notion step name no link); a link without a status id became an errors entry; the loop goes
\* on to the end of the list, so processed + errors = links in the result.
C9_NotFailFast ==
    /\ Len(b_items)
         + Cardinality({ m \in 1..Len(b_errors) :
                          \E k \in 1..b_i : NamesLink(b_errors[m], b_links[k]) })
       = b_i
    /\ \A k \in 1..b_i :
         LET link == b_links[k]
         IN /\ Cardinality({ m \in 1..Len(b_items) : b_items[m].url = link })
                 + Cardinality({ m \in 1..Len(b_errors) : NamesLink(b_errors[m], link) })
               = Occurrences(link, b_i)
            /\ extract_status_id(link) = <<>> =>
                 \E m \in 1..Len(b_errors) : NamesLink(b_errors[m], link)
    /\ b_pc = "done" => b_i = Len(b_links)

\* a malformed first link was recorded and the link after it was processed
C9_Witness ==
    /\ b_pc = "done"
    /\ Len(b_links) >= 2
    /\ extract_status_id(b_links[1]) = <<>>
    /\ Len(b_errors) >= 1 /\ NamesLink(b_errors[1], b_links[1])
    /\ Len(b_items) >= 1 /\ b_items[1].url = b_links[2]

\* q extends p by at most one entry
GrowsByAtMostOne(p, q) ==
    /\ Len(q) \in {Len(p), Len(p) + 1}
    /\ SubSeq(q, 1, Len(p)) = p

\* C15: when the Notion step begins the local note is already written; the step
\* leaves the note and the items as they were and at most appends one entry to
\* errors (it does so when the sync is unconfigured or fails); the run is not
\* aborted, and the result printed carries the items, the note and the errors.
C15_BestEffortSync ==
    /\ b_snap # <<>> =>
         /\ b_snap[1].out # <<>>
         /\ b_out = b_snap[1].out
         /\ b_items = b_snap[1].items
         /\ GrowsByAtMostOne(b_snap[1].errors, b_errors)
         /\ (b_notion /\ b_page_id = "") => Len(b_errors) = Len(b_snap[1].errors) + 1
         /\ b_pc \in {"synced", "done"}
    /\ b_pc = "done" =>
         /\ b_report # <<>>
         /\ b_report[1].processed = Len(b_items)
         /\ b_report[1].output = b_out
         /\ b_report[1].errors = b_errors
         /\ b_out[1].posts = b_items

\* a run with --notion whose sync failed after one link had been processed:
\* the result is printed with the item and with the failure as last error
C15_Witness ==
    /\ b_pc = "done"
    /\ b_notion
    /\ Len(b_items) >= 1
    /\ b_report # <<>>
    /\ Len(b_report[1].errors) >= 1
    /\ b_report[1].errors[Len(b_report[1].errors)] = SyncFailed
    /\ b_report[1].processed = Len(b_items)

------------------------------------------------------------------------------
(* read_x_post.py, main: --download-media *)

\* media_urls of the main post and the thread; "" is a missing url
MediaUrls == {"", "u1", "u2"}

RECURSIVE MediaLists(_)
MediaLists(n) ==
    IF n = 0 THEN { <<>> }
    ELSE LET shorter == MediaLists(n - 1)
         IN shorter \cup { Append(l, u) : l \in {x \in shorter : Len(x) = n - 1},
                                          u \in MediaUrls }

\* the loop building unique_media: falsy and already seen urls are skipped
RECURSIVE UniqueMedia(_, _)
UniqueMedia(all, seen) ==
    IF all = <<>> THEN <<>>
    ELSE IF Head(all) = "" \/ Head(all) \in seen THEN UniqueMedia(Tail(all), seen)
    ELSE <<Head(all)>> \o UniqueMedia(Tail(all), seen \cup {Head(all)})

\* requests.get / raise_for_status / write_bytes for one url
DownloadOutcomes == {"saved", "failed"}

MInit ==
    /\ m_all \in MediaLists(MaxMedia)
    /\ m_unique = <<>> /\ m_idx = 0 /\ m_downloaded = <<>> /\ m_caught = <<>>
    /\ m_result = <<>>
    /\ m_pc = "start"

\* all_media is reduced to unique_media
MDedup ==
    /\ m_pc = "start"
    /\ m_unique' = UniqueMedia(m_all, {})
    /\ m_pc' = "loop"
    /\ UNCHANGED <<m_all, m_idx, m_downloaded, m_caught, m_result>>
    /\ UNCHANGED <<qvars, kbvars, chvars, rtvars, cpvars, bvars, dvars, nvars, rdvars>>

\* one iteration of the download loop: "except Exception: continue"
MDownload ==
    /\ m_pc = "loop"
    /\ m_idx < Len(m_unique)
    /\ \E o \in DownloadOutcomes :
         IF o = "saved"
         THEN /\ m_downloaded' = Append(m_downloaded, m_idx + 1)
              /\ UNCHANGED m_caught
         ELSE /\ m_caught' = Append(m_caught, m_unique[m_idx + 1])
              /\ UNCHANGED m_downloaded
    /\ m_idx' = m_idx + 1
    /\ UNCHANGED <<m_all, m_unique, m_result, m_pc>>
    /\ UNCHANGED <<qvars, kbvars, chvars, rtvars, cpvars, bvars, dvars, nvars, rdvars>>

\* result["downloaded_media"], result["downloaded_media_count"]; print
MReport ==
    /\ m_pc = "loop"
    /\ m_idx = Len(m_unique)
    /\ m_result' = <<[downloaded_media |-> m_downloaded,
                      downloaded_media_count |-> Len(m_downloaded)]>>
    /\ m_pc' = "printed"
    /\ UNCHANGED <<m_all, m_unique, m_idx, m_downloaded, m_caught>>
    /\ UNCHANGED <<qvars, kbvars, chvars, rtvars, cpvars, bvars, dvars, nvars, rdvars>>

MNext == MDedup \/ MDownload \/ MReport

\* the initial states of SpecMedia: the download starts, the others rest
MediaStart == MInit /\ QOff /\ KbOff /\ ChOff /\ RtOff /\ CpOff /\ BOff /\ DOff /\ NOff /\ RdOff

SpecMedia == MediaStart /\ [][MNext]_vars

\* the errors collection of a printed result (empty when it has none)
ReportedErrors(result) ==
    IF "errors" \in DOMAIN result THEN result.errors ELSE <<>>

\* C16 (as claimed, for the media download of the capture tool): the run went
\* on to print its result, so every failure that was caught has an entry in the
\* errors collection of that result.
C16_NothingDropped ==
    m_pc = "printed" => Len(ReportedErrors(m_result[1])) >= Len(m_caught)

------------------------------------------------------------------------------
(* batch_x_learning.py: categorize, summarize *)
(* A character outside ASCII is written as its code point, "U+5B89".        *)

CATEGORY_RULES ==
    << [cat |-> "install-debug",
        keys |-> << <<"U+5B89", "U+88C5">>,
                    <<"U+914D", "U+7F6E">>,
                    <<"U+62A5", "U+9519">>,
                    <<"d", "e", "b", "u", "g">>,
                    <<"e", "r", "r", "o", "r">>,
                    <<"s", "e", "t", "u", "p">>,
                    <<"d", "e", "p", "l", "o", "y">>,
                    <<"U+8FD0", "U+884C">>,
                    <<"U+542F", "U+52A8">> >>],
       [cat |-> "architecture-principles",
        keys |-> << <<"U+539F", "U+7406">>,
                    <<"U+67B6", "U+6784">>,
                    <<"a", "r", "c", "h", "i", "t", "e", "c", "t", "u", "r", "e">>,
                    <<"p", "r", "o", "t", "o", "c", "o", "l">>,
                    <<"c", "d", "p">>,
                    <<"U+673A", "U+5236">>,
                    <<"d", "e", "s", "i", "g", "n">> >>],
       [cat |-> "security-risk",
        keys |-> << <<"U+5B89", "U+5168">>,
                    <<"U+6F0F", "U+6D1E">>,
                    <<"r", "i", "s", "k">>,
                    <<"U+98CE", "U+63A7">>,
                    <<"U+66B4", "U+9732">>,
                    <<"U+8BA4", "U+8BC1">>,
                    <<"U+6743", "U+9650">>,
                    <<"U+653B", "U+51FB">> >>],
       [cat |-> "growth-content",
        keys |-> << <<"U+7206", "U+6B3E">>,
                    <<"U+5185", "U+5BB9">>,
                    <<"U+8FD0", "U+8425">>,
                    <<"U+6D41", "U+91CF">>,
                    <<"U+9009", "U+9898">>,
                    <<"U+7ED3", "U+6784">>,
                    <<"U+8F6C", "U+5316">>,
                    <<"U+81EA", "U+5A92", "U+4F53">> >>],
       [cat |-> "tools-release",
        keys |-> << <<"U+53D1", "U+5E03">>,
                    <<"U+66F4", "U+65B0">>,
                    <<"r", "e", "l", "e", "a", "s", "e">>,
                    <<"n", "e", "w">>,
                    <<"U+6A21", "U+578B">>,
                    <<"U+529F", "U+80FD">>,
                    <<"U+7248", "U+672C">> >>] >>

UpperCase == <<"A", "B", "C", "D", "E", "F", "G", "H", "I", "J", "K", "L", "M",
               "N", "O", "P", "Q", "R", "S", "T", "U", "V", "W", "X", "Y", "Z">>
LowerCase == <<"a", "b", "c", "d", "e", "f", "g", "h", "i", "j", "k", "l", "m",
               "n", "o", "p", "q", "r", "s", "t", "u", "v", "w", "x", "y", "z">>

\* s.lower()
Lower(s) ==
    [i \in 1..Len(s) |->
       IF \E u \in 1..26 : UpperCase[u] = s[i]
       THEN LowerCase[CHOOSE u \in 1..26 : UpperCase[u] = s[i]]
       ELSE s[i]]

\* "for k in keys: if k.lower() in low"
RECURSIVE AnyKeyIn(_, _)
AnyKeyIn(keys, low) ==
    IF keys = <<>> THEN FALSE
    ELSE IF Occurs(Lower(Head(keys)), low) THEN TRUE
    ELSE AnyKeyIn(Tail(keys), low)

\* "for cat, keys in CATEGORY_RULES.items()", then "uncategorized"
RECURSIVE FirstCategory(_, _)
FirstCategory(rules, low) ==
    IF rules = <<>> THEN "uncategorized"
    ELSE IF AnyKeyIn(Head(rules).keys, low) THEN Head(rules).cat
    ELSE FirstCategory(Tail(rules), low)

\* a categorizer that compares without lowering the text
categorize_case_sensitive(text) == FirstCategory(CATEGORY_RULES, text)

categorize(text) == FirstCategory(CATEGORY_RULES, Lower(text))

\* re.sub(r"\s+", " ", text)
RECURSIVE Collapse(_)
Collapse(text) ==
    IF text = <<>> THEN <<>>
    ELSE IF Head(text) \in Whitespace
         THEN IF Len(text) >= 2 /\ text[2] \in Whitespace THEN Collapse(Tail(text))
              ELSE <<" ">> \o Collapse(Tail(text))
    ELSE <<Head(text)>> \o Collapse(Tail(text))

SUMMARY_LIMIT == 120

\* a summarizer that emits a text within the limit as it is
summarize_verbatim(text, limit) ==
    IF Len(text) <= limit THEN text
    ELSE SubSeq(text, 1, limit - 1) \o <<"U+2026">>

summarize(text, limit) ==
    LET t == Strip(Collapse(text))
    IN IF Len(t) <= limit THEN t
       ELSE SubSeq(t, 1, limit - 1) \o <<"U+2026">>

\* pieces of a capture text
Install == <<"U+5B89", "U+88C5">>
Config == <<"U+914D", "U+7F6E">>
Security == <<"U+5B89", "U+5168">>
TextPieces ==
    { Install, Config, Security, <<"N", "e", "w">>, <<"C", "D", "P">>, <<"x">>,
      <<" ">>, <<"\n">> }

RECURSIVE CaptureTexts(_)
CaptureTexts(n) ==
    IF n = 0 THEN { <<>> }
    ELSE CaptureTexts(n - 1) \cup { t \o piece : t \in CaptureTexts(n - 1),
                                                 piece \in TextPieces }

NInit ==
    /\ n_text \in CaptureTexts(MaxPieces)
    /\ n_cat = "" /\ n_summary = <<>>
    /\ n_pc = "start"

\* cat = categorize(text)
NCategorize ==
    /\ n_pc = "start"
    /\ n_cat' = categorize(n_text)
    /\ n_pc' = "categorized"
    /\ UNCHANGED <<n_text, n_summary>>
    /\ UNCHANGED <<qvars, kbvars, chvars, rtvars, cpvars, bvars, dvars, mvars, rdvars>>

\* "summary": summarize(text)
NSummarize ==
    /\ n_pc = "categorized"
    /\ n_summary' = summarize(n_text, SUMMARY_LIMIT)
    /\ n_pc' = "done"
    /\ UNCHANGED <<n_text, n_cat>>
    /\ UNCHANGED <<qvars, kbvars, chvars, rtvars, cpvars, bvars, dvars, mvars, rdvars>>

NNext == NCategorize \/ NSummarize

\* the initial states of SpecNote: one capture text, the others rest
NoteStart ==
    NInit /\ QOff /\ KbOff /\ ChOff /\ RtOff /\ CpOff /\ BOff /\ DOff /\ MOff /\ RdOff

SpecNote == NoteStart /\ [][NNext]_vars

\* C17 (as claimed): a text of at most 120 characters is emitted unchanged.
C17_ShortTextUnchanged ==
    (n_pc = "done" /\ Len(n_text) <= 120) => n_summary = n_text

\* words joined by single spaces
RECURSIVE JoinWords(_)
JoinWords(words) ==
    IF words = <<>> THEN <<>>
    ELSE IF Len(words) = 1 THEN words[1]
    ELSE words[1] \o <<" ">> \o JoinWords(Tail(words))

\* C17 (amended): a text of at most 120 characters is emitted whole, with every
\* run of whitespace replaced by one space and without leading or trailing
\* whitespace: the summary is the words of the text joined by single spaces.
C17_ShortTextNormalized ==
    (n_pc = "done" /\ Len(n_text) <= 120) => n_summary = JoinWords(Split(n_text))

\* a two-line text was summarized on one line
C17_Witness ==
    /\ n_pc = "done"
    /\ n_text = Install \o <<"\n">> \o Config
    /\ n_summary = Install \o <<" ">> \o Config

\* a keyword of the i-th category occurs in the text, case-insensitively
HasKeyword(i, text) ==
    \E k \in 1..Len(CATEGORY_RULES[i].keys) :
        Occurs(Lower(CATEGORY_RULES[i].keys[k]), Lower(text))

\* C18: the category is that of the first rule, in declared order, one of whose
\* keywords occurs case-insensitively in the text, and "uncategorized" when there
\* is none; a text containing U+5B89 U+88C5 or U+914D U+7F6E is "install-debug".
C18_FirstMatchingCategory ==
    n_pc \in {"categorized", "done"} =>
      /\ IF \E i \in 1..Len(CATEGORY_RULES) : HasKeyword(i, n_text)
         THEN \E i \in 1..Len(CATEGORY_RULES) :
                /\ HasKeyword(i, n_text)
                /\ \A j \in 1..(i - 1) : ~HasKeyword(j, n_text)
                /\ n_cat = CATEGORY_RULES[i].cat
         ELSE n_cat = "uncategorized"
      /\ (Occurs(Install, n_text) \/ Occurs(Config, n_text)) => n_cat = "install-debug"

\* a text with keywords of two later categories, one of them in upper case:
\* the category declared first of the two was assigned
C18_Witness ==
    /\ n_pc = "categorized"
    /\ n_text = <<"N", "e", "w">> \o <<"C", "D", "P">> \o Security
    /\ n_cat = "architecture-principles"

------------------------------------------------------------------------------
(* read_x_post.py, main: the main post, the scan of the page and the thread *)

\* _extract_article(article): the fields of the node the capture keeps.  The
\* status id is the one of the time permalink, else the one of the first
\* status link; author_handle is the lower-cased handle _extract_handle gives
\* ("" when none is found).
_extract_article(article) ==
    LET permalink == _status_from_time_permalink(article)
        links == _article_status_links(article)
    IN [status_id |-> IF permalink # "" THEN permalink
                      ELSE IF links # <<>> THEN links[1] ELSE "",
        author_handle |-> article.handle,
        text |-> article.text]

CollectStart == [seen_ids |-> {}, items |-> <<>>]

\* a loop body that never consults seen_ids
CollectStepKeepsRepeats(st, data) ==
    IF data.status_id # ""
    THEN [seen_ids |-> st.seen_ids \cup {data.status_id},
          items |-> Append(st.items, data)]
    ELSE IF data.text = "" THEN st
    ELSE [st EXCEPT !.items = Append(st.items, data)]

\* one iteration of the loop of _collect_articles on the extracted node
CollectStep(st, data) ==
    IF data.status_id # ""
    THEN IF data.status_id \in st.seen_ids THEN st
         ELSE [seen_ids |-> st.seen_ids \cup {data.status_id},
               items |-> Append(st.items, data)]
    ELSE IF data.text = "" THEN st
    ELSE [st EXCEPT !.items = Append(st.items, data)]

RECURSIVE CollectLoop(_, _, _, _)
CollectLoop(page, i, count, st) ==
    IF i > count THEN st
    ELSE CollectLoop(page, i + 1, count, CollectStep(st, _extract_article(page[i])))

Min(a, b) == IF a <= b THEN a ELSE b

\* _collect_articles(page, max_articles)
_collect_articles(page, max_articles) ==
    CollectLoop(page, 1, Min(Len(page), max_articles), CollectStart).items

\* the test main makes on the extracted main post
StatusMismatchIgnored(target_status_id, main_post) == FALSE

StatusMismatch(target_status_id, main_post) ==
    /\ target_status_id # ""
    /\ main_post.status_id # ""
    /\ main_post.status_id # target_status_id

\* the thread loop of main: st.stopped is the break
ThreadStep(st, item, main_sid, target_handle, include_others, max_thread) ==
    IF st.stopped THEN st
    ELSE IF item.status_id # "" /\ main_sid # "" /\ item.status_id = main_sid THEN st
    ELSE IF ~include_others /\ target_handle # ""
            /\ item.author_handle # target_handle THEN st
    ELSE IF item.text = "" THEN st
    ELSE [thread |-> Append(st.thread, item),
          stopped |-> Len(st.thread) + 1 >= max_thread]

RECURSIVE ThreadLoop(_, _, _, _, _, _, _)
ThreadLoop(all_articles, k, st, main_sid, target_handle, include_others, max_thread) ==
    IF k > Len(all_articles) THEN st
    ELSE ThreadLoop(all_articles, k + 1,
                    ThreadStep(st, all_articles[k], main_sid, target_handle,
                               include_others, max_thread),
                    main_sid, target_handle, include_others, max_thread)

ThreadOf(all_articles, main_post, include_others, max_thread) ==
    ThreadLoop(all_articles, 1, [thread |-> <<>>, stopped |-> FALSE],
               main_post.status_id, main_post.author_handle,
               include_others, max_thread).thread

\* article nodes a page can show
Sid1 == "1"
MainNode == [perma |-> Sid1, links |-> <<Sid1>>, handle |-> "a", text |-> "t"]
FollowUp == [perma |-> "2", links |-> <<"2">>, handle |-> "a", text |-> "t"]
ReplyNode == [perma |-> "3", links |-> <<"3", Sid1>>, handle |-> "b", text |-> "t"]
NoIdNode == [perma |-> "", links |-> <<>>, handle |-> "a", text |-> "t"]
EmptyNode == [perma |-> "", links |-> <<>>, handle |-> "", text |-> ""]
LinkOnlyNode == [perma |-> "", links |-> <<Sid1>>, handle |-> "", text |-> "t"]

ArticleNodes == {MainNode, FollowUp, ReplyNode, NoIdNode, EmptyNode, LinkOnlyNode}

Pages == UNION { [1..n -> ArticleNodes] : n \in 0..MaxArticles }

RdInit ==
    /\ rd_sid \in {"", Sid1}
    /\ rd_page \in Pages
    /\ rd_max_articles \in {MaxArticles - 1, MaxArticles}
    /\ rd_max_thread \in 0..MaxThread
    /\ rd_include_others \in BOOLEAN
    /\ rd_target = 0 /\ rd_main = <<>> /\ rd_all = <<>> /\ rd_thread = <<>>
    /\ rd_err = "" /\ rd_pc = "start"

rdargs == <<rd_sid, rd_page, rd_max_articles, rd_max_thread, rd_include_others>>

\* target_article = _find_target_article_with_retries(page, target_status_id),
\* on the page the retries end on
RdFind ==
    /\ rd_pc = "start"
    /\ LET r == _find_target_article(rd_page, rd_sid)
       IN IF r.found
          THEN rd_target' = r.index /\ rd_pc' = "found" /\ UNCHANGED rd_err
          ELSE rd_err' = r.err /\ rd_pc' = "failed" /\ UNCHANGED rd_target
    /\ UNCHANGED <<rdargs, rd_main, rd_all, rd_thread>>
    /\ UNCHANGED <<qvars, kbvars, chvars, rtvars, cpvars, bvars, dvars, mvars, nvars>>

\* main_post = _extract_article(target_article), then the mismatch test
RdExtract ==
    /\ rd_pc = "found"
    /\ LET main_post == _extract_article(rd_page[rd_target])
       IN /\ rd_main' = <<main_post>>
          /\ IF StatusMismatch(rd_sid, main_post)
             THEN rd_err' = "Captured status mismatch" /\ rd_pc' = "failed"
             ELSE rd_pc' = "checked" /\ UNCHANGED rd_err
    /\ UNCHANGED <<rdargs, rd_target, rd_all, rd_thread>>
    /\ UNCHANGED <<qvars, kbvars, chvars, rtvars, cpvars, bvars, dvars, mvars, nvars>>

\* all_articles = _collect_articles(page, max_articles=args.max_articles)
RdCollect ==
    /\ rd_pc = "checked"
    /\ rd_all' = _collect_articles(rd_page, rd_max_articles)
    /\ rd_pc' = "collected"
    /\ UNCHANGED <<rdargs, rd_target, rd_main, rd_thread, rd_err>>
    /\ UNCHANGED <<qvars, kbvars, chvars, rtvars, cpvars, bvars, dvars, mvars, nvars>>

\* the thread loop and the result
RdThread ==
    /\ rd_pc = "collected"
    /\ rd_thread' = ThreadOf(rd_all, rd_main[1], rd_include_others, rd_max_thread)
    /\ rd_pc' = "done"
    /\ UNCHANGED <<rdargs, rd_target, rd_main, rd_all, rd_err>>
    /\ UNCHANGED <<qvars, kbvars, chvars, rtvars, cpvars, bvars, dvars, mvars, nvars>>

RdNext == RdFind \/ RdExtract \/ RdCollect \/ RdThread

ReadStart ==
    RdInit /\ QOff /\ KbOff /\ ChOff /\ RtOff /\ CpOff /\ BOff /\ DOff /\ MOff /\ NOff

SpecRead == ReadStart /\ [][RdNext]_vars

\* the nodes _collect_articles looks at, extracted, in page order
Scanned == [i \in 1..Min(Len(rd_page), rd_max_articles) |-> _extract_article(rd_page[i])]

\* the scanned nodes the claim says are kept: the first node of each status
\* id, and the nodes without a status id that carry text
KeptIndices ==
    { i \in 1..Len(Scanned) :
        IF Scanned[i].status_id # ""
        THEN \A j \in 1..(i - 1) : Scanned[j].status_id # Scanned[i].status_id
        ELSE Scanned[i].text # "" }

Collected == rd_pc \in {"collected", "done"}

\* C21: the list returned by _collect_articles holds no two nodes with the same
\* non-empty status id, holds a node without a status id only if its text is
\* non-empty, and is the scanned nodes that are the first of their status id or
\* carry text without an id, in page order.
C21_Deduplicated ==
    Collected =>
        /\ \A i, j \in 1..Len(rd_all) :
              (i < j /\ rd_all[i].status_id # "")
                  => rd_all[i].status_id # rd_all[j].status_id
        /\ \A i \in 1..Len(rd_all) :
              rd_all[i].status_id = "" => rd_all[i].text # ""
        /\ Len(rd_all) = Cardinality(KeptIndices)
        /\ \A i \in KeptIndices :
              rd_all[Cardinality({ j \in KeptIndices : j <= i })] = Scanned[i]

\* a page with a repeated status id, an id-less node with text and one without
C21_Witness ==
    /\ Collected
    /\ rd_page = <<MainNode, LinkOnlyNode, NoIdNode>>
    /\ rd_all = <<_extract_article(MainNode), _extract_article(NoIdNode)>>

Produced == rd_pc = "done"

\* what the thread loop does guarantee: every entry has text, an entry with a
\* status id differs from a main post with a status id, the author is the main
\* post's whenever the main post has a handle, and a positive --max-thread
\* bounds the thread
C26_ThreadLoopGuarantees ==
    (Produced /\ ~rd_include_others) =>
        /\ \A k \in 1..Len(rd_thread) :
              /\ rd_thread[k].text # ""
              /\ (rd_thread[k].status_id # "" /\ rd_main[1].status_id # "")
                    => rd_thread[k].status_id # rd_main[1].status_id
              /\ rd_main[1].author_handle # ""
                    => rd_thread[k].author_handle = rd_main[1].author_handle
        /\ rd_max_thread >= 1 => Len(rd_thread) <= rd_max_thread

\* C26: in every capture result produced without --include-others, each thread
\* entry has the author handle of the main post, has non-empty text, has a
\* status id that differs from the main post's, and the thread has at most
\* --max-thread entries.
C26_SameAuthorThread ==
    (Produced /\ ~rd_include_others) =>
        /\ \A k \in 1..Len(rd_thread) :
              /\ rd_thread[k].author_handle = rd_main[1].author_handle
              /\ rd_thread[k].text # ""
              /\ rd_thread[k].status_id # rd_main[1].status_id
        /\ Len(rd_thread) <= rd_max_thread

\* the three ways the thread of a result leaves the claim
C26_NoThreadWithZeroCap ==
    (Produced /\ ~rd_include_others /\ rd_max_thread = 0) => rd_thread = <<>>

C26_NoOtherAuthor ==
    (Produced /\ ~rd_include_others) =>
        \A k \in 1..Len(rd_thread) :
            rd_thread[k].author_handle = rd_main[1].author_handle

C26_NoMainPostInThread ==
    (Produced /\ ~rd_include_others) =>
        \A k \in 1..Len(rd_thread) :
            rd_thread[k].status_id # rd_main[1].status_id

\* C29: a capture that completes for a non-empty target status id has a main
\* post whose status_id is empty or the target; a target article found through
\* the link fallback whose permalink resolves to another id ends the capture
\* with the status-mismatch error.
FoundByLink ==
    /\ rd_target >= 1
    /\ rd_sid # ""
    /\ _status_from_time_permalink(rd_page[rd_target]) # rd_sid
    /\ InSeq(rd_sid, _article_status_links(rd_page[rd_target]))

C29_NoOtherPostRecorded ==
    /\ (Produced /\ rd_sid # "") => rd_main[1].status_id \in {"", rd_sid}
    /\ (rd_main # <<>> /\ FoundByLink
           /\ _status_from_time_permalink(rd_page[rd_target]) # "")
          => (rd_pc = "failed" /\ rd_err = "Captured status mismatch")
    /\ (rd_pc = "failed" /\ rd_err = "Captured status mismatch")
          => (rd_thread = <<>> /\ rd_all = <<>>)

\* the only node naming the target is a reply that links it
C29_Witness ==
    /\ rd_pc = "failed"
    /\ rd_err = "Captured status mismatch"
    /\ rd_sid = Sid1
    /\ rd_page = <<FollowUp, ReplyNode>>
    /\ rd_target = 2
    /\ rd_main = <<_extract_article(ReplyNode)>>

\* a capture found through the link fallback completes
C29_WitnessCompleted ==
    /\ Produced
    /\ rd_sid = Sid1
    /\ FoundByLink
    /\ rd_main[1].status_id = Sid1

====
